---- MODULE Spec2Model ----
(***************************************************************************)
(* A model of the olang tree-walking interpreter: the Value and Exception  *)
(* types (value.rs), the Environment scope stack (environment.rs), the     *)
(* builtin functions (builtin.rs) and the evaluator (interpreter.rs).      *)
(*                                                                         *)
(* The evaluator is a recursive walk of the AST; each eval_* function of   *)
(* interpreter.rs is one RECURSIVE operator of the same name that takes    *)
(* the evaluation state and returns the state together with the Rust       *)
(* Result<Value, ControlFlowValue>.  Rust's `?` is the early return        *)
(* "IF r.tag # Ok THEN r".                                                 *)
(***************************************************************************)
EXTENDS Integers, Sequences, FiniteSets, TLC

VARIABLES
    scopes,           \* Interpreter.environment.scopes: Vec<HashMap<String, Value>>
    outcome,          \* what the last Interpreter::eval returned
    trace,            \* history of the last eval: what was evaluated, in order
    program,          \* the AST the last eval was given
    evals,            \* number of eval calls made on this Interpreter
    overflow_checks,  \* build profile: TRUE = debug (overflow panics), FALSE = release (wraps)
    call              \* the last direct application of an Environment method or an operator

vars == <<scopes, outcome, trace, program, evals, overflow_checks, call>>

(***************************************************************************)
(* i64.  TLC's integers are 32 bits wide, so a Rust i64 is kept as its     *)
(* two's complement bit pattern in four 16-bit limbs, least significant    *)
(* first.                                                                  *)
(***************************************************************************)
LimbBase == 2^16

Limbs == 1..4

\* The i64 whose value is the (32-bit) TLA+ integer n.
I64(n) ==
    LET ext == IF n < 0 THEN LimbBase - 1 ELSE 0
    IN  <<n % LimbBase, (n \div LimbBase) % LimbBase, ext, ext>>

I64Max == <<LimbBase - 1, LimbBase - 1, LimbBase - 1, (LimbBase \div 2) - 1>>

I64Min == <<0, 0, 0, LimbBase \div 2>>

IsNegative(a) == a[4] >= LimbBase \div 2

\* a + b + carry modulo 2^64
AddWithCarry(a, b, carry) ==
    LET s1 == a[1] + b[1] + carry
        s2 == a[2] + b[2] + (s1 \div LimbBase)
        s3 == a[3] + b[3] + (s2 \div LimbBase)
        s4 == a[4] + b[4] + (s3 \div LimbBase)
    IN  <<s1 % LimbBase, s2 % LimbBase, s3 % LimbBase, s4 % LimbBase>>

BitNot(a) == [i \in Limbs |-> LimbBase - 1 - a[i]]

WrappingAdd(a, b) == AddWithCarry(a, b, 0)

WrappingSub(a, b) == AddWithCarry(a, BitNot(b), 1)

AddOverflows(a, b) ==
    /\ IsNegative(a) = IsNegative(b)
    /\ IsNegative(WrappingAdd(a, b)) # IsNegative(a)

SubOverflows(a, b) ==
    /\ IsNegative(a) # IsNegative(b)
    /\ IsNegative(WrappingSub(a, b)) # IsNegative(a)

\* unsigned comparison of the bit patterns, most significant limb first
UnsignedLess(a, b) ==
    \E i \in Limbs : a[i] < b[i] /\ \A j \in Limbs : j > i => a[j] = b[j]

\* a < b as i64
SignedLess(a, b) ==
    IF IsNegative(a) # IsNegative(b) THEN IsNegative(a) ELSE UnsignedLess(a, b)

\* The TLA+ integer an i64 of small magnitude stands for (|value| < 2^31).
IsSmall(a) ==
    \/ a[3] = 0 /\ a[4] = 0 /\ a[2] < LimbBase \div 2
    \/ a[3] = LimbBase - 1 /\ a[4] = LimbBase - 1 /\ a[2] >= LimbBase \div 2

SmallValue(a) ==
    IF IsNegative(a)
    THEN a[1] + LimbBase * (a[2] - LimbBase)
    ELSE a[1] + LimbBase * a[2]

\* The eight bytes of a 64-bit pattern, least significant first.
Bytes(a) ==
    [k \in 1..8 |-> IF k % 2 = 1 THEN a[(k + 1) \div 2] % 256
                                  ELSE a[k \div 2] \div 256]

\* the sum of the byte products x[i] * y[j] with i + j = k + 1, from i on
RECURSIVE ColumnSum(_, _, _, _)
ColumnSum(x, y, k, i) ==
    IF i > 8 THEN 0
    ELSE (IF k + 1 - i \in 1..8 THEN x[i] * y[k + 1 - i] ELSE 0)
            + ColumnSum(x, y, k, i + 1)

RECURSIVE ProductBytes(_, _, _, _)
ProductBytes(x, y, k, carry) ==
    IF k > 16 THEN <<>>
    ELSE LET sum == ColumnSum(x, y, k, 1) + carry
         IN  <<sum % 256>> \o ProductBytes(x, y, k + 1, sum \div 256)

\* the 128-bit product of two unsigned 64-bit patterns, as sixteen bytes
WideningMul(a, b) == ProductBytes(Bytes(a), Bytes(b), 1, 0)

LowLimbs(p) == [i \in Limbs |-> p[2 * i - 1] + 256 * p[2 * i]]

HighIsZero(p) == \A k \in 9..16 : p[k] = 0

WrappingMul(a, b) == LowLimbs(WideningMul(a, b))

WrappingNeg(a) == AddWithCarry(BitNot(a), <<0, 0, 0, 0>>, 1)

\* i64::unsigned_abs: the magnitude as an unsigned 64-bit pattern
UnsignedAbs(a) == IF IsNegative(a) THEN WrappingNeg(a) ELSE a

\* the product of a and b as i64 is not an i64
MulOverflows(a, b) ==
    LET p == WideningMul(UnsignedAbs(a), UnsignedAbs(b))
    IN  \/ ~HighIsZero(p)
        \/ IF IsNegative(a) # IsNegative(b)
           THEN UnsignedLess(I64Min, LowLimbs(p))
           ELSE IsNegative(LowLimbs(p))

\* bit i (0..63) of a pattern
Bit(a, i) == (a[(i \div 16) + 1] \div 2^(i % 16)) % 2

SetBit(a, i) == [a EXCEPT ![(i \div 16) + 1] = @ + 2^(i % 16)]

\* unsigned long division: the bits i down to low of the dividend n are
\* brought down one at a time into s = [quot, rem]; the divisor d is at
\* most 2^63
RECURSIVE DivRemBits(_, _, _, _, _)
DivRemBits(n, d, i, low, s) ==
    IF i < low THEN s
    ELSE LET shifted == AddWithCarry(s.rem, s.rem, Bit(n, i))
         IN  IF UnsignedLess(shifted, d)
             THEN DivRemBits(n, d, i - 1, low, [quot |-> s.quot, rem |-> shifted])
             ELSE DivRemBits(n, d, i - 1, low,
                             [quot |-> SetBit(s.quot, i), rem |-> WrappingSub(shifted, d)])

\* the whole division, one limb of the dividend after the other
DivRemUnsigned(n, d) ==
    LET zero == [quot |-> <<0, 0, 0, 0>>, rem |-> <<0, 0, 0, 0>>]
        limb4 == DivRemBits(n, d, 63, 48, zero)
        limb3 == DivRemBits(n, d, 47, 32, limb4)
        limb2 == DivRemBits(n, d, 31, 16, limb3)
    IN  DivRemBits(n, d, 15, 0, limb2)

\* i64 division truncates toward zero; the remainder has the sign of a
WrappingDiv(a, b) ==
    LET q == DivRemUnsigned(UnsignedAbs(a), UnsignedAbs(b)).quot
    IN  IF IsNegative(a) # IsNegative(b) THEN WrappingNeg(q) ELSE q

WrappingRem(a, b) ==
    LET r == DivRemUnsigned(UnsignedAbs(a), UnsignedAbs(b)).rem
    IN  IF IsNegative(a) THEN WrappingNeg(r) ELSE r

\* i64::MIN / -1
DivOverflows(a, b) == a = I64Min /\ b = <<LimbBase - 1, LimbBase - 1, LimbBase - 1, LimbBase - 1>>

(***************************************************************************)
(* Rust results.  Ok(v), Err(ControlFlowValue::Exception(e)),              *)
(* Err(ControlFlowValue::Continue), Err(ControlFlowValue::Break).  Panic   *)
(* is a Rust panic: the thread unwinds and no Result is returned.          *)
(***************************************************************************)
Ok(v) == [tag |-> "Ok", val |-> v]

Exception(e) == [tag |-> "Exception", exception |-> e]

Continue == [tag |-> "Continue"]

Break == [tag |-> "Break"]

Panic(why) == [tag |-> "Panic", why |-> why]

\* `left + right` on i64: panics on overflow when the build checks overflow
\* (debug profile), wraps otherwise (release profile).
i64_add(a, b) ==
    IF AddOverflows(a, b) /\ overflow_checks
    THEN Panic("attempt to add with overflow")
    ELSE Ok(WrappingAdd(a, b))

i64_sub(a, b) ==
    IF SubOverflows(a, b) /\ overflow_checks
    THEN Panic("attempt to subtract with overflow")
    ELSE Ok(WrappingSub(a, b))

i64_mul(a, b) ==
    IF MulOverflows(a, b) /\ overflow_checks
    THEN Panic("attempt to multiply with overflow")
    ELSE Ok(WrappingMul(a, b))

\* `left / right` on i64 panics on a zero divisor and on i64::MIN / -1 in
\* every build profile
i64_div(a, b) ==
    IF b = <<0, 0, 0, 0>> THEN Panic("attempt to divide by zero")
    ELSE IF DivOverflows(a, b) THEN Panic("attempt to divide with overflow")
    ELSE Ok(WrappingDiv(a, b))

i64_rem(a, b) ==
    IF b = <<0, 0, 0, 0>>
    THEN Panic("attempt to calculate the remainder with a divisor of zero")
    ELSE IF DivOverflows(a, b)
    THEN Panic("attempt to calculate the remainder with overflow")
    ELSE Ok(WrappingRem(a, b))

(***************************************************************************)
(* value.rs                                                                *)
(***************************************************************************)
ValueFunction(f) == [kind |-> "Function", function |-> f]

ValueString(s) == [kind |-> "String", str |-> s]

ValueInt(i) == [kind |-> "Int", int |-> i]

ValueBool(b) == [kind |-> "Bool", bool |-> b]

ValueList(l) == [kind |-> "List", list |-> l]

ValueNull == [kind |-> "Null"]

FunctionDefined(parameters, body) ==
    [fkind |-> "Defined", parameters |-> parameters, body |-> body]

FunctionBuiltin(name) == [fkind |-> "Builtin", name |-> name]

into_int(v) ==
    IF v.kind = "Int" THEN Ok(v.int) ELSE Exception("ValueIsWrongType")

into_bool(v) ==
    IF v.kind = "Bool" THEN Ok(v.bool) ELSE Exception("ValueIsWrongType")

into_str(v) ==
    IF v.kind = "String" THEN Ok(v.str) ELSE Exception("ValueIsWrongType")

into_list(v) ==
    IF v.kind = "List" THEN Ok(v.list) ELSE Exception("ValueIsWrongType")

\* impl PartialEq for Function: never equal.
\* the mutation of Function's eq that compares the two functions
FunctionEqStructural(f, g) == f = g

FunctionEq(f, g) == FALSE

\* #[derive(PartialEq)] for Value: same variant and equal payloads.
RECURSIVE ValueEq(_, _)
ValueEq(a, b) ==
    /\ a.kind = b.kind
    /\ CASE a.kind = "Function" -> FunctionEq(a.function, b.function)
         [] a.kind = "String" -> a.str = b.str
         [] a.kind = "Int" -> a.int = b.int
         [] a.kind = "Bool" -> a.bool = b.bool
         [] a.kind = "List" ->
                /\ Len(a.list) = Len(b.list)
                /\ \A i \in 1..Len(a.list) : ValueEq(a.list[i], b.list[i])
         [] a.kind = "Null" -> TRUE

(***************************************************************************)
(* environment.rs                                                          *)
(***************************************************************************)
EmptyScope == [k \in {} |-> ValueNull]

\* HashMap::insert
Insert(scope, id, value) ==
    [k \in DOMAIN scope \cup {id} |-> IF k = id THEN value ELSE scope[k]]

new == <<EmptyScope>>

pop(s) == IF Len(s) = 0 THEN s ELSE SubSeq(s, 1, Len(s) - 1)

push(s) == Append(s, EmptyScope)

\* Option<Value>
None == [some |-> FALSE]

Some(v) == [some |-> TRUE, val |-> v]

\* the innermost scope that declares id, 0 when none does
DeclaringScope(s, id) ==
    IF \E i \in 1..Len(s) : id \in DOMAIN s[i]
    THEN CHOOSE i \in 1..Len(s) :
            /\ id \in DOMAIN s[i]
            /\ \A j \in (i + 1)..Len(s) : id \notin DOMAIN s[j]
    ELSE 0

get(s, id) ==
    LET i == DeclaringScope(s, id)
    IN  IF i = 0 THEN None ELSE Some(s[i][id])

\* the mutation of assign that walks the scopes outermost first
assignOutermost(s, id, value) ==
    IF \E i \in 1..Len(s) : id \in DOMAIN s[i]
    THEN LET i == CHOOSE i \in 1..Len(s) :
                    /\ id \in DOMAIN s[i]
                    /\ \A j \in 1..(i - 1) : id \notin DOMAIN s[j]
         IN  [scopes |-> [s EXCEPT ![i] = Insert(@, id, value)], res |-> Ok(ValueNull)]
    ELSE [scopes |-> s, res |-> Exception("UndeclaredIdentifier")]

\* returns the environment and the Result<(), ControlFlowValue>
assign(s, id, value) ==
    LET i == DeclaringScope(s, id)
    IN  IF i # 0
        THEN [scopes |-> [s EXCEPT ![i] = Insert(@, id, value)], res |-> Ok(ValueNull)]
        ELSE [scopes |-> s, res |-> Exception("UndeclaredIdentifier")]

\* self.scopes.last_mut().unwrap().insert(id, value)
declare(s, id, value) ==
    IF Len(s) = 0
    THEN [scopes |-> s, res |-> Panic("unwrap on None")]
    ELSE [scopes |-> [s EXCEPT ![Len(s)] = Insert(@, id, value)], res |-> Ok(ValueNull)]

declare_builtin(s, id, function) ==
    declare(s, id, ValueFunction(FunctionBuiltin(function)))

get_or_undeclared(s, id) ==
    LET v == get(s, id)
    IN  IF v.some THEN Ok(v.val) ELSE Exception("UndeclaredIdentifier")

\* impl Default for Environment
default ==
    declare_builtin(
        declare_builtin(new, "printLn", "print_ln").scopes,
        "toString", "to_string").scopes

(***************************************************************************)
(* Strings are sequences of characters.  impl fmt::Display for Value.      *)
(***************************************************************************)
DigitChars == <<"0", "1", "2", "3", "4", "5", "6", "7", "8", "9">>

\* quotient and remainder of the unsigned 64-bit pattern a by a small d
DivSmall(a, d) ==
    LET n4 == a[4]
        n3 == (n4 % d) * LimbBase + a[3]
        n2 == (n3 % d) * LimbBase + a[2]
        n1 == (n2 % d) * LimbBase + a[1]
    IN  [quot |-> <<n1 \div d, n2 \div d, n3 \div d, n4 \div d>>, rem |-> n1 % d]

RECURSIVE UnsignedDigits(_)
UnsignedDigits(a) ==
    IF a = I64(0) THEN <<>>
    ELSE LET qr == DivSmall(a, 10)
         IN  Append(UnsignedDigits(qr.quot), DigitChars[qr.rem + 1])

\* write!(f, "{}", i) for an i64
DisplayInt(i) ==
    IF i = I64(0) THEN <<"0">>
    ELSE IF IsNegative(i) THEN <<"-">> \o UnsignedDigits(WrappingSub(I64(0), i))
    ELSE UnsignedDigits(i)

\* {:?} of a Function: a debug form the program cannot take apart
DebugFunction(f) == <<"<function>">>

RECURSIVE Display(_)
RECURSIVE DisplayElements(_, _)
DisplayElements(list, i) ==
    IF i > Len(list) THEN <<>>
    ELSE Display(list[i])
            \o (IF i # Len(list) THEN <<" ">> ELSE <<>>)
            \o DisplayElements(list, i + 1)

Display(v) ==
    CASE v.kind = "Bool" ->
            IF v.bool THEN <<"t", "r", "u", "e">> ELSE <<"f", "a", "l", "s", "e">>
      [] v.kind = "Int" -> DisplayInt(v.int)
      [] v.kind = "String" -> v.str
      [] v.kind = "Function" -> DebugFunction(v.function)
      [] v.kind = "Null" -> <<"n", "u", "l", "l">>
      [] v.kind = "List" -> <<"[">> \o DisplayElements(v.list, 1) \o <<"]">>

(***************************************************************************)
(* builtin.rs.  A builtin returns its Result and the line it printed.      *)
(***************************************************************************)
expect_num_of_argumets(arguments, num) ==
    IF Len(arguments) # num
    THEN Exception("WrongNumberOfArguments")
    ELSE Ok(ValueNull)

RECURSIVE Concat(_, _)
Concat(arguments, i) ==
    IF i > Len(arguments) THEN <<>>
    ELSE Display(arguments[i]) \o Concat(arguments, i + 1)

print_ln(arguments) ==
    [res |-> Ok(ValueNull), out |-> <<Concat(arguments, 1)>>]

to_string(arguments) ==
    LET n == expect_num_of_argumets(arguments, 1)
    IN  IF n.tag # "Ok" THEN [res |-> n, out |-> <<>>]
        ELSE [res |-> Ok(ValueString(Display(arguments[1]))), out |-> <<>>]

\* the call through the fn pointer held by Function::Builtin
Builtin(name, arguments) ==
    CASE name = "print_ln" -> print_ln(arguments)
      [] name = "to_string" -> to_string(arguments)

(***************************************************************************)
(* interpreter.rs: the operators                                           *)
(***************************************************************************)
\* the mutation of plus that extends a list by the elements of a right list
plusExtending(left, right) ==
    CASE left.kind = "Int" ->
            LET r == into_int(right)
            IN  IF r.tag # "Ok" THEN r
                ELSE LET s == i64_add(left.int, r.val)
                     IN  IF s.tag # "Ok" THEN s ELSE Ok(ValueInt(s.val))
      [] left.kind = "String" ->
            LET r == into_str(right)
            IN  IF r.tag # "Ok" THEN r ELSE Ok(ValueString(left.str \o r.val))
      [] left.kind = "List" ->
            IF right.kind = "List" THEN Ok(ValueList(left.list \o right.list))
            ELSE Ok(ValueList(Append(left.list, right)))
      [] OTHER -> Exception("ValueIsWrongType")

plus(left, right) ==
    CASE left.kind = "Int" ->
            LET r == into_int(right)
            IN  IF r.tag # "Ok" THEN r
                ELSE LET s == i64_add(left.int, r.val)
                     IN  IF s.tag # "Ok" THEN s ELSE Ok(ValueInt(s.val))
      [] left.kind = "String" ->
            LET r == into_str(right)
            IN  IF r.tag # "Ok" THEN r ELSE Ok(ValueString(left.str \o r.val))
      [] left.kind = "List" -> Ok(ValueList(Append(left.list, right)))
      [] OTHER -> Exception("ValueIsWrongType")

minus(left, right) ==
    LET l == into_int(left)
    IN  IF l.tag # "Ok" THEN l
        ELSE LET r == into_int(right)
             IN  IF r.tag # "Ok" THEN r
                 ELSE LET s == i64_sub(l.val, r.val)
                      IN  IF s.tag # "Ok" THEN s ELSE Ok(ValueInt(s.val))

\* `left.into_int()? op right.into_int()?` of multiply, divide and modulo
Arithmetic(left, right, Op(_, _)) ==
    LET l == into_int(left)
    IN  IF l.tag # "Ok" THEN l
        ELSE LET r == into_int(right)
             IN  IF r.tag # "Ok" THEN r
                 ELSE LET s == Op(l.val, r.val)
                      IN  IF s.tag # "Ok" THEN s ELSE Ok(ValueInt(s.val))

multiply(left, right) == Arithmetic(left, right, i64_mul)

divide(left, right) == Arithmetic(left, right, i64_div)

modulo(left, right) == Arithmetic(left, right, i64_rem)

\* u64::checked_mul
checked_mul(a, b) ==
    LET p == WideningMul(a, b)
    IN  IF HighIsZero(p) THEN Some(LowLimbs(p)) ELSE None

\* the loop of u64::checked_pow, exponentiation by squaring; the u32
\* exponent is exp_high * 2^16 + exp_low
RECURSIVE PowLoop(_, _, _, _)
PowLoop(base, acc, exp_low, exp_high) ==
    IF exp_high = 0 /\ exp_low <= 1 THEN checked_mul(acc, base)
    ELSE LET multiplied == IF exp_low % 2 = 1 THEN checked_mul(acc, base) ELSE Some(acc)
         IN  IF ~multiplied.some THEN None
             ELSE LET squared == checked_mul(base, base)
                  IN  IF ~squared.some THEN None
                      ELSE PowLoop(squared.val, multiplied.val,
                                   (exp_low \div 2) + (exp_high % 2) * (LimbBase \div 2),
                                   exp_high \div 2)

checked_pow(base, exp_low, exp_high) ==
    IF exp_low = 0 /\ exp_high = 0 THEN Some(<<1, 0, 0, 0>>)
    ELSE PowLoop(base, <<1, 0, 0, 0>>, exp_low, exp_high)

\* (base_int as u64).checked_pow(exponent_int as u32), Some(v) => v as i64:
\* `as u64` and `as i64` keep the bit pattern, `as u32` keeps the low 32 bits
exponent(base, exponent_value) ==
    LET base_int == into_int(base)
    IN  IF base_int.tag # "Ok" THEN base_int
        ELSE LET exponent_int == into_int(exponent_value)
             IN  IF exponent_int.tag # "Ok" THEN exponent_int
                 ELSE LET v == checked_pow(base_int.val, exponent_int.val[1],
                                           exponent_int.val[2])
                      IN  IF v.some THEN Ok(ValueInt(v.val))
                          ELSE Exception("ExponentiationOverflowed")

is_equal(left, right) == ValueEq(left, right)

is_not_equal(left, right) == ~ValueEq(left, right)

\* the four relational operators: both operands through into_int, then compare
Relational(left, right, Cmp(_, _)) ==
    LET l == into_int(left)
    IN  IF l.tag # "Ok" THEN l
        ELSE LET r == into_int(right)
             IN  IF r.tag # "Ok" THEN r ELSE Ok(Cmp(l.val, r.val))

LessThan(a, b) == SignedLess(a, b)

LessThanOrEqual(a, b) == ~SignedLess(b, a)

GreaterThan(a, b) == SignedLess(b, a)

GreaterThanOrEqual(a, b) == ~SignedLess(a, b)

is_less_than(left, right) == Relational(left, right, LessThan)

is_less_than_or_equal(left, right) == Relational(left, right, LessThanOrEqual)

is_greater_than(left, right) == Relational(left, right, GreaterThan)

is_greater_than_or_equal(left, right) == Relational(left, right, GreaterThanOrEqual)

\* `*left.into_bool()? && *right.into_bool()?`: Rust's && does not convert
\* the right operand when the left one is false
logical_and(left, right) ==
    LET l == into_bool(left)
    IN  IF l.tag # "Ok" THEN l
        ELSE IF ~l.val THEN Ok(FALSE)
        ELSE into_bool(right)

logical_or(left, right) ==
    LET l == into_bool(left)
    IN  IF l.tag # "Ok" THEN l
        ELSE IF l.val THEN Ok(TRUE)
        ELSE into_bool(right)

\* Ok(b) as Ok(Value::Bool(b))
WrapBool(r) == IF r.tag # "Ok" THEN r ELSE Ok(ValueBool(r.val))

\* the match of eval_binary on the operator
BinaryOperation(operator, left, right) ==
    CASE operator = "Plus" -> plus(left, right)
      [] operator = "Minus" -> minus(left, right)
      [] operator = "Multiply" -> multiply(left, right)
      [] operator = "Divide" -> divide(left, right)
      [] operator = "Modulus" -> modulo(left, right)
      [] operator = "Exponentiation" -> exponent(left, right)
      [] operator = "IsEqual" -> Ok(ValueBool(is_equal(left, right)))
      [] operator = "IsNotEqual" -> Ok(ValueBool(is_not_equal(left, right)))
      [] operator = "IsLessThan" -> WrapBool(is_less_than(left, right))
      [] operator = "IsLessThanOrEqual" -> WrapBool(is_less_than_or_equal(left, right))
      [] operator = "IsGreaterThan" -> WrapBool(is_greater_than(left, right))
      [] operator = "IsGreaterThanOrEqual" ->
            WrapBool(is_greater_than_or_equal(left, right))
      [] operator = "LogicalAnd" -> WrapBool(logical_and(left, right))
      [] operator = "LogicalOr" -> WrapBool(logical_or(left, right))

(***************************************************************************)
(* interpreter.rs: the evaluator.                                          *)
(*                                                                         *)
(* The evaluation state st holds the Environment (st.scopes), the standard *)
(* output (st.stdout), and the bookkeeping of the model: st.trace, the     *)
(* history of what was evaluated; st.next, the number the next evaluated   *)
(* expression gets in the trace; st.fuel, the number of steps left before  *)
(* the run counts as not terminating.  Every eval_* operator returns       *)
(* [st, res]: the state it leaves and its Result.                          *)
(*                                                                         *)
(* Trace events:                                                           *)
(*   <<"enter", n, type, depth>>     eval_expression is entered            *)
(*   <<"exit", n, type, depth, tag>> ... and left, with the Result's tag   *)
(*   <<"raise", res>>                an Err(..) is constructed (or a panic)*)
(*   <<"loop", n, "start", t, u>>    loop n pushed its scope; whether it   *)
(*                                   has a test and an update              *)
(*   <<"loop", n, what>>             the loop numbered n reaches its test, *)
(*                                   its body or its update                *)
(*   <<"loop", n, "body_end", tag>>  the body of loop n returned           *)
(*   <<"call", n, what, ..>>         push / bind / body / pop of the call  *)
(*                                   numbered n of a defined function      *)
(*   <<"top", i>>                    eval reaches top-level expression i   *)
(***************************************************************************)
MaxSteps == 70

Diverge == [tag |-> "Diverge"]

NewState(s) ==
    [scopes |-> s, stdout |-> <<>>, trace |-> <<>>, next |-> 1, fuel |-> MaxSteps]

Log(st, event) == [st EXCEPT !.trace = Append(@, event)]

Return(st, res) == [st |-> st, res |-> res]

\* a Result constructed at this point of the code: an Err is raised here
Raise(st, res) ==
    IF res.tag = "Ok" THEN Return(st, res)
    ELSE Return(Log(st, <<"raise", res>>), res)

\* an operation of Environment that returns [scopes, res]
Env(st, e) == Raise([st EXCEPT !.scopes = e.scopes], e.res)

\* i64 `as usize`, as an index into a list of a modelled length: the bit
\* pattern read as unsigned, -1 when it lies beyond any modelled list.
AsIndex(i) ==
    IF i[2] = 0 /\ i[3] = 0 /\ i[4] = 0 THEN i[1] ELSE -1

\* Option<T> of the AST
Absent == [some |-> FALSE]

Present(e) == [some |-> TRUE, e |-> e]

\* the match of eval_assign on the operator, each arm's operator function
AssignmentOperation(operator, current, value) ==
    CASE operator = "Plus" -> plus(current, value)
      [] operator = "Minus" -> minus(current, value)
      [] operator = "Multiply" -> multiply(current, value)
      [] operator = "Divide" -> divide(current, value)
      [] operator = "Modulo" -> modulo(current, value)

\* the match of eval_update on the operator
UpdateOperation(operator, current) ==
    CASE operator = "Increment" -> plus(current, ValueInt(I64(1)))
      [] operator = "Decremet" -> minus(current, ValueInt(I64(1)))

\* the mutation of LoopBodyArm that leaves the loop on Continue
LoopBodyArmLeaving(res) ==
    CASE res.tag = "Ok" -> "result"
      [] res.tag = "Continue" -> "break"
      [] res.tag = "Break" -> "break"
      [] OTHER -> "return"

\* the mutation of LoopBodyArm that lets a loop absorb an exception
LoopBodyArmAbsorbing(res) ==
    CASE res.tag = "Ok" -> "result"
      [] res.tag = "Break" -> "break"
      [] OTHER -> "continue"

\* the match of eval_loop on the Result of the body
LoopBodyArm(res) ==
    CASE res.tag = "Ok" -> "result"
      [] res.tag = "Continue" -> "continue"
      [] res.tag = "Break" -> "break"
      [] OTHER -> "return"

\* the mutation of ArityMismatch that accepts surplus arguments
ArityMismatchTooFew(parameters, arguments) == Len(parameters) > Len(arguments)

\* `defined.parameters.len() != arguments.len()` of eval_call
ArityMismatch(parameters, arguments) == Len(parameters) # Len(arguments)

\* a panic, or a run that does not end: the function's remaining statements
\* do not run
Unwinds(res) == res.tag \in {"Panic", "Diverge"}

RECURSIVE eval_expression(_, _)
RECURSIVE eval_block(_, _, _)
RECURSIVE BlockFor(_, _, _, _)
RECURSIVE EvalEach(_, _, _, _)
RECURSIVE eval_call(_, _, _)
RECURSIVE eval_if(_, _, _)
RECURSIVE IfFor(_, _, _, _)
RECURSIVE eval_loop(_, _, _, _, _)
RECURSIVE LoopIteration(_, _, _, _, _, _)
RECURSIVE LoopUpdate(_, _, _, _, _, _)

\* the mutation of eval_binary that skips the right operand of && and ||
\* when the left one decides
eval_binaryShortCircuit(st, left_expression, operator, right_expression) ==
    LET left == eval_expression(st, left_expression)
    IN  IF left.res.tag # "Ok" THEN left
        ELSE IF operator = "LogicalAnd" /\ left.res.val = ValueBool(FALSE)
        THEN Return(left.st, Ok(ValueBool(FALSE)))
        ELSE IF operator = "LogicalOr" /\ left.res.val = ValueBool(TRUE)
        THEN Return(left.st, Ok(ValueBool(TRUE)))
        ELSE LET right == eval_expression(left.st, right_expression)
             IN  IF right.res.tag # "Ok" THEN right
                 ELSE Raise(right.st,
                            BinaryOperation(operator, left.res.val, right.res.val))

eval_binary(st, left_expression, operator, right_expression) ==
    LET left == eval_expression(st, left_expression)
    IN  IF left.res.tag # "Ok" THEN left
        ELSE LET right == eval_expression(left.st, right_expression)
             IN  IF right.res.tag # "Ok" THEN right
                 ELSE Raise(right.st,
                            BinaryOperation(operator, left.res.val, right.res.val))

\* for expression in block { result = self.eval_expression(expression)?; }
BlockFor(st, block, i, result) ==
    IF i > Len(block) THEN Return(st, Ok(result))
    ELSE LET r == eval_expression(st, block[i])
         IN  IF r.res.tag # "Ok" THEN r
             ELSE BlockFor(r.st, block, i + 1, r.res.val)

\* the mutation of eval_block that pops at its end a scope it did not push
eval_blockAlwaysPopping(st, private_environment, block) ==
    LET st1 == IF private_environment THEN [st EXCEPT !.scopes = push(@)] ELSE st
        r == BlockFor(st1, block, 1, ValueNull)
    IN  IF r.res.tag # "Ok" THEN r ELSE [r EXCEPT !.st.scopes = pop(@)]

eval_block(st, private_environment, block) ==
    LET st1 == IF private_environment THEN [st EXCEPT !.scopes = push(@)] ELSE st
        r == BlockFor(st1, block, 1, ValueNull)
    IN  IF r.res.tag # "Ok" THEN r
        ELSE IF private_environment THEN [r EXCEPT !.st.scopes = pop(@)]
        ELSE r

eval_identifier(st, id) == Raise(st, get_or_undeclared(st.scopes, id))

\* for e in expressions { values.push(self.eval_expression(e)?) }
EvalEach(st, expressions, i, values) ==
    IF i > Len(expressions) THEN Return(st, Ok(values))
    ELSE LET r == eval_expression(st, expressions[i])
         IN  IF r.res.tag # "Ok" THEN r
             ELSE EvalEach(r.st, expressions, i + 1, Append(values, r.res.val))

\* for (i, parameter) in parameters { self.environment.declare(..) }
RECURSIVE DeclareParameters(_, _, _, _, _)
DeclareParameters(st, n, parameters, evaluated_arguments, i) ==
    IF i > Len(parameters) THEN Return(st, Ok(ValueNull))
    ELSE LET d == Env(Log(st, <<"call", n, "bind", parameters[i]>>),
                      declare(st.scopes, parameters[i], evaluated_arguments[i]))
         IN  IF d.res.tag # "Ok" THEN d
             ELSE DeclareParameters(d.st, n, parameters, evaluated_arguments, i + 1)

eval_call(st, id, arguments) ==
    LET n == st.next - 1
        function_value == get(st.scopes, id)
    IN  IF ~function_value.some
        THEN Raise(st, Exception("UndeclaredIdentifier"))
        ELSE IF function_value.val.kind # "Function"
        THEN Raise(st, Exception("CalledValueIsNotFunction"))
        ELSE
        LET function == function_value.val.function
            evaluated_arguments == EvalEach(st, arguments, 1, <<>>)
        IN  IF evaluated_arguments.res.tag # "Ok" THEN evaluated_arguments
            ELSE IF function.fkind = "Builtin"
            THEN LET b == Builtin(function.name, evaluated_arguments.res.val)
                 IN  Raise([evaluated_arguments.st EXCEPT !.stdout = @ \o b.out], b.res)
            ELSE
            LET st1 == Log([evaluated_arguments.st EXCEPT !.scopes = push(@)],
                           <<"call", n, "push",
                             Len(function.parameters), Len(arguments)>>)
            IN  IF ArityMismatch(function.parameters, arguments)
                THEN Raise(st1, Exception("WrongNumberOfArguments"))
                ELSE
                LET bound == DeclareParameters(st1, n, function.parameters,
                                               evaluated_arguments.res.val, 1)
                IN  IF bound.res.tag # "Ok" THEN bound
                    ELSE
                    LET result == eval_block(Log(bound.st, <<"call", n, "body">>),
                                             FALSE, function.body)
                    IN  IF Unwinds(result.res) THEN result
                        ELSE [result EXCEPT
                                !.st = Log([@ EXCEPT !.scopes = pop(@)],
                                           <<"call", n, "pop">>)]

eval_list(st, expressions) ==
    LET values == EvalEach(st, expressions, 1, <<>>)
    IN  IF values.res.tag # "Ok" THEN values
        ELSE Return(values.st, Ok(ValueList(values.res.val)))

eval_index(st, expression, index) ==
    LET value == eval_expression(st, expression)
    IN  IF value.res.tag # "Ok" THEN value
        ELSE
        LET list == into_list(value.res.val)
        IN  IF list.tag # "Ok" THEN Raise(value.st, list)
            ELSE
            LET i == eval_expression(value.st, index)
            IN  IF i.res.tag # "Ok" THEN i
                ELSE
                LET int == into_int(i.res.val)
                IN  IF int.tag # "Ok" THEN Raise(i.st, int)
                    ELSE IF AsIndex(int.val) \in 0..(Len(list.val) - 1)
                    THEN Return(i.st, Ok(list.val[AsIndex(int.val) + 1]))
                    ELSE Raise(i.st, Exception("IndexOutOfRange"))

eval_declare_variable(st, id, expression) ==
    LET value == eval_expression(st, expression)
    IN  IF value.res.tag # "Ok" THEN value
        ELSE Env(value.st, declare(value.st.scopes, id, value.res.val))

\* for clause in clauses { .. }, then the else block
IfFor(st, clauses, i, else_block) ==
    IF i > Len(clauses)
    THEN IF else_block.some
         THEN eval_block(st, TRUE, else_block.e)
         ELSE Return(st, Ok(ValueNull))
    ELSE LET test_value == eval_expression(st, clauses[i].test)
         IN  IF test_value.res.tag # "Ok" THEN test_value
             ELSE LET b == into_bool(test_value.res.val)
                  IN  IF b.tag # "Ok" THEN Raise(test_value.st, b)
                      ELSE IF b.val
                      THEN eval_block(test_value.st, TRUE, clauses[i].body)
                      ELSE IfFor(test_value.st, clauses, i + 1, else_block)

eval_if(st, clauses, else_block) == IfFor(st, clauses, 1, else_block)

eval_assign(st, id, operator, expression) ==
    LET value == eval_expression(st, expression)
    IN  IF value.res.tag # "Ok" THEN value
        ELSE IF operator = "Set"
        THEN Env(value.st, assign(value.st.scopes, id, value.res.val))
        ELSE
        LET current == get_or_undeclared(value.st.scopes, id)
        IN  IF current.tag # "Ok" THEN Raise(value.st, current)
            ELSE
            LET computed == AssignmentOperation(operator, current.val, value.res.val)
            IN  IF computed.tag # "Ok" THEN Raise(value.st, computed)
                ELSE Env(value.st, assign(value.st.scopes, id, computed.val))

eval_update(st, identifier, operator) ==
    LET current == get_or_undeclared(st.scopes, identifier)
    IN  IF current.tag # "Ok" THEN Raise(st, current)
        ELSE
        LET computed == UpdateOperation(operator, current.val)
        IN  IF computed.tag # "Ok" THEN Raise(st, computed)
            ELSE Env(st, assign(st.scopes, identifier, computed.val))

\* the code after `loop { .. }`: pop the loop's scope, Ok(result)
LoopEnd(st, result) == Return([st EXCEPT !.scopes = pop(@)], Ok(result))

\* `if let Some(update) = update { self.eval_expression(update)?; }`, and
\* the next pass of `loop`
LoopUpdate(st, n, test, update, body, result) ==
    LET u == IF update.some
             THEN eval_expression(Log(st, <<"loop", n, "update">>), update.e)
             ELSE Return(st, Ok(ValueNull))
    IN  IF u.res.tag # "Ok" THEN u
        ELSE LoopIteration(u.st, n, test, update, body, result)

\* one pass of `loop { .. }`
LoopIteration(st, n, test, update, body, result) ==
    IF st.fuel = 0 THEN Return(st, Diverge)
    ELSE
    LET st0 == [st EXCEPT !.fuel = @ - 1]
        t == IF test.some
             THEN LET v == eval_expression(Log(st0, <<"loop", n, "test">>), test.e)
                  IN  IF v.res.tag # "Ok" THEN v
                      ELSE Raise(v.st, into_bool(v.res.val))
             ELSE Return(st0, Ok(TRUE))
    IN  IF t.res.tag # "Ok" THEN t
        ELSE IF ~t.res.val THEN LoopEnd(t.st, result)
        ELSE
        LET b == eval_block(Log(t.st, <<"loop", n, "body">>), FALSE, body)
            ended == Log(b.st, <<"loop", n, "body_end", b.res.tag>>)
            arm == LoopBodyArm(b.res)
        IN  CASE arm = "result" ->
                    LoopUpdate(ended, n, test, update, body, b.res.val)
              [] arm = "continue" ->
                    LoopUpdate(ended, n, test, update, body, result)
              [] arm = "break" -> LoopEnd(ended, result)
              [] arm = "return" -> Return(ended, b.res)

eval_loop(st, init, test, update, body) ==
    LET n == st.next - 1
        st1 == Log([st EXCEPT !.scopes = push(@)],
                   <<"loop", n, "start", test.some, update.some>>)
        i == IF init.some
             THEN eval_expression(st1, init.e)
             ELSE Return(st1, Ok(ValueNull))
    IN  IF i.res.tag # "Ok" THEN i
        ELSE LoopIteration(i.st, n, test, update, body, ValueNull)

\* the match of eval_expression on the expression's variant
Dispatch(st, expression) ==
    CASE expression.type = "Int" -> Return(st, Ok(ValueInt(expression.int)))
      [] expression.type = "String" -> Return(st, Ok(ValueString(expression.str)))
      [] expression.type = "Bool" -> Return(st, Ok(ValueBool(expression.bool)))
      [] expression.type = "Null" -> Return(st, Ok(ValueNull))
      [] expression.type = "If" ->
            eval_if(st, expression.clauses, expression.else_block)
      [] expression.type = "Loop" ->
            eval_loop(st, expression.init, expression.test, expression.update,
                      expression.body)
      [] expression.type = "Continue" -> Raise(st, Continue)
      [] expression.type = "Break" -> Raise(st, Break)
      [] expression.type = "Function" ->
            Return(st, Ok(ValueFunction(FunctionDefined(expression.parameters,
                                                        expression.body))))
      [] expression.type = "Block" -> eval_block(st, TRUE, expression.block)
      [] expression.type = "Identifier" -> eval_identifier(st, expression.id)
      [] expression.type = "Call" ->
            eval_call(st, expression.identifier, expression.arguments)
      [] expression.type = "List" -> eval_list(st, expression.expressions)
      [] expression.type = "Index" ->
            eval_index(st, expression.expression, expression.index)
      [] expression.type = "VariableDeclaration" ->
            eval_declare_variable(st, expression.identifier, expression.expression)
      [] expression.type = "Assign" ->
            eval_assign(st, expression.identifier, expression.operator,
                        expression.expression)
      [] expression.type = "Update" ->
            eval_update(st, expression.identifier, expression.operator)
      [] expression.type = "Binary" ->
            eval_binary(st, expression.left, expression.operator, expression.right)

\* the end of eval_expression: r is what the matched arm returned
Exited(n, expression, r) ==
    Return(Log(r.st, <<"exit", n, expression.type, Len(r.st.scopes), r.res.tag>>),
           r.res)

eval_expression(st, expression) ==
    IF st.fuel = 0 THEN Return(st, Diverge)
    ELSE
    Exited(st.next, expression,
           Dispatch(Log([st EXCEPT !.fuel = @ - 1, !.next = @ + 1],
                        <<"enter", st.next, expression.type, Len(st.scopes)>>),
                    expression))

\* the mutation of TopLevel that reports an escaped signal as the other one
TopLevelSwapped(res) ==
    CASE res.tag = "Exception" ->
            [tag |-> "UnhandledException", exception |-> res.exception]
      [] res.tag = "Continue" -> [tag |-> "BreakOutsideLoop"]
      [] res.tag = "Break" -> [tag |-> "ContinueOutsideLoop"]
      [] OTHER -> res

\* the match of eval on the Result of a top-level expression: EvalError
TopLevel(res) ==
    CASE res.tag = "Exception" ->
            [tag |-> "UnhandledException", exception |-> res.exception]
      [] res.tag = "Continue" -> [tag |-> "ContinueOutsideLoop"]
      [] res.tag = "Break" -> [tag |-> "BreakOutsideLoop"]
      [] OTHER -> res

\* the mutation of the loop of eval that takes the expressions last to first
RECURSIVE ProgramForBackwards(_, _, _, _)
ProgramForBackwards(st, ast, i, result) ==
    IF i > Len(ast) THEN Return(st, Ok(result))
    ELSE LET k == Len(ast) + 1 - i
             r == eval_expression(Log(st, <<"top", k>>), ast[k])
         IN  IF r.res.tag # "Ok" THEN Return(r.st, TopLevel(r.res))
             ELSE ProgramForBackwards(r.st, ast, i + 1, r.res.val)

\* for expression in program.ast { .. ?; }
RECURSIVE ProgramFor(_, _, _, _)
\* result = self.eval_expression(&expression)?, r being what it returned
ProgramNext(ast, i, r) ==
    IF r.res.tag # "Ok" THEN Return(r.st, TopLevel(r.res))
    ELSE ProgramFor(r.st, ast, i + 1, r.res.val)

ProgramFor(st, ast, i, result) ==
    IF i > Len(ast) THEN Return(st, Ok(result))
    ELSE ProgramNext(ast, i, eval_expression(Log(st, <<"top", i>>), ast[i]))

\* Interpreter::eval, from the parsed Program on
eval(s, ast) == ProgramFor(NewState(s), ast, 1, ValueNull)

(***************************************************************************)
(* The AST: the variants of ExpressionValue that eval_expression matches.  *)
(***************************************************************************)
ExprInt(n) == [type |-> "Int", int |-> I64(n)]

ExprString(s) == [type |-> "String", str |-> s]

ExprBool(b) == [type |-> "Bool", bool |-> b]

ExprNull == [type |-> "Null"]

IfClause(test, body) == [test |-> test, body |-> body]

ExprIf(clauses, else_block) ==
    [type |-> "If", clauses |-> clauses, else_block |-> else_block]

ExprLoop(init, test, update, body) ==
    [type |-> "Loop", init |-> init, test |-> test, update |-> update, body |-> body]

ExprContinue == [type |-> "Continue"]

ExprBreak == [type |-> "Break"]

ExprFunction(parameters, body) ==
    [type |-> "Function", parameters |-> parameters, body |-> body]

ExprBlock(block) == [type |-> "Block", block |-> block]

ExprIdentifier(id) == [type |-> "Identifier", id |-> id]

ExprCall(identifier, arguments) ==
    [type |-> "Call", identifier |-> identifier, arguments |-> arguments]

ExprList(expressions) == [type |-> "List", expressions |-> expressions]

ExprIndex(expression, index) ==
    [type |-> "Index", expression |-> expression, index |-> index]

ExprVariableDeclaration(identifier, expression) ==
    [type |-> "VariableDeclaration", identifier |-> identifier,
     expression |-> expression]

ExprAssign(identifier, operator, expression) ==
    [type |-> "Assign", identifier |-> identifier, operator |-> operator,
     expression |-> expression]

ExprUpdate(identifier, operator) ==
    [type |-> "Update", identifier |-> identifier, operator |-> operator]

ExprBinary(left, operator, right) ==
    [type |-> "Binary", left |-> left, operator |-> operator, right |-> right]

(***************************************************************************)
(* The programs the model evaluates.  A program is the sequence of its     *)
(* top-level expressions: a setup, one construct under study, one probe.   *)
(*                                                                         *)
(* The construct runs a body that declares `t`, stores a function that     *)
(* reads `t` in the global `g`, and then produces a signal (a value,       *)
(* continue, break or an exception), directly or inside an if / else /     *)
(* bare block / called function, at the top level or in a loop whose init  *)
(* declares `i`.  `k` counts the passes of the loop body, `u` the          *)
(* evaluations of the update, so that the final environment shows what     *)
(* ran.  The identifiers `i` and `t` are declared nowhere else.            *)
(***************************************************************************)
Signals == {"value", "continue", "break", "exception"}

Wraps == {"bare", "if", "else", "block", "call"}

SignalExpr(sig) ==
    CASE sig = "value" -> ExprInt(7)
      [] sig = "continue" -> ExprContinue
      [] sig = "break" -> ExprBreak
      [] sig = "exception" -> ExprIdentifier("undeclared")

\* var t = 1  g = fun() { t }  <signal>  k = k + 10
SignalBody(sig) ==
    << ExprVariableDeclaration("t", ExprInt(1)),
       ExprAssign("g", "Set", ExprFunction(<<>>, <<ExprIdentifier("t")>>)),
       SignalExpr(sig),
       ExprAssign("k", "Plus", ExprInt(10)) >>

Wrapped(sig, wrap) ==
    CASE wrap = "bare" -> SignalBody(sig)
      [] wrap = "if" ->
            << ExprIf(<<IfClause(ExprBool(TRUE), SignalBody(sig))>>, Absent) >>
      [] wrap = "else" ->
            << ExprIf(<<IfClause(ExprBool(FALSE), <<>>)>>, Present(SignalBody(sig))) >>
      [] wrap = "block" -> << ExprBlock(SignalBody(sig)) >>
      [] wrap = "call" -> << ExprCall("h", <<>>) >>

Setup(sig) ==
    << ExprVariableDeclaration("k", ExprInt(0)),
       ExprVariableDeclaration("u", ExprInt(0)),
       ExprVariableDeclaration("g", ExprNull),
       ExprVariableDeclaration("h", ExprFunction(<<>>, SignalBody(sig))) >>

\* for (var i = 0; i < 2; { i++ u++ }) { k += 1  <body> }
CountedLoop(body) ==
    ExprLoop(Present(ExprVariableDeclaration("i", ExprInt(0))),
             Present(ExprBinary(ExprIdentifier("i"), "IsLessThan", ExprInt(2))),
             Present(ExprBlock(<< ExprUpdate("i", "Increment"),
                                  ExprUpdate("u", "Increment") >>)),
             << ExprAssign("k", "Plus", ExprInt(1)) >> \o body)

\* loop { k += 1  if k >= 3 { break }  <body> }
BareLoop(body) ==
    ExprLoop(Absent, Absent, Absent,
             << ExprAssign("k", "Plus", ExprInt(1)),
                ExprIf(<<IfClause(ExprBinary(ExprIdentifier("k"),
                                             "IsGreaterThanOrEqual", ExprInt(3)),
                                  <<ExprBreak>>)>>, Absent) >> \o body)

ReadT == ExprIdentifier("t")

ReadI == ExprIdentifier("i")

AssignT == ExprAssign("t", "Set", ExprInt(5))

CallG == ExprCall("g", <<>>)

TopLevelPrograms ==
    { Setup(sig) \o Wrapped(sig, wrap) \o <<probe>> :
        sig \in Signals, wrap \in Wraps, probe \in {ReadT, CallG} }

LoopPrograms ==
    { Setup(sig) \o <<CountedLoop(Wrapped(sig, wrap)), probe>> :
        sig \in Signals, wrap \in Wraps, probe \in {ReadI, ReadT, AssignT, CallG} }

BareLoopPrograms ==
    { Setup(sig) \o <<BareLoop(Wrapped(sig, wrap)), ReadT>> :
        sig \in Signals, wrap \in {"bare", "if", "call"} }

\* for (var i = 0; i < 3; { i++ u++ }) {
\*     k += 1  if i == a { continue }  if i == b { break }  k += 10 }
LoopControl(a, b) ==
    ExprLoop(Present(ExprVariableDeclaration("i", ExprInt(0))),
             Present(ExprBinary(ExprIdentifier("i"), "IsLessThan", ExprInt(3))),
             Present(ExprBlock(<< ExprUpdate("i", "Increment"),
                                  ExprUpdate("u", "Increment") >>)),
             << ExprAssign("k", "Plus", ExprInt(1)),
                ExprIf(<<IfClause(ExprBinary(ExprIdentifier("i"), "IsEqual", ExprInt(a)),
                                  <<ExprContinue>>)>>, Absent),
                ExprIf(<<IfClause(ExprBinary(ExprIdentifier("i"), "IsEqual", ExprInt(b)),
                                  <<ExprBreak>>)>>, Absent),
                ExprAssign("k", "Plus", ExprInt(10)) >>)

LoopControlPrograms ==
    { << ExprVariableDeclaration("k", ExprInt(0)),
         ExprVariableDeclaration("u", ExprInt(0)),
         LoopControl(a, b),
         ExprIdentifier("k") >> : a \in 0..3, b \in 0..3 }

\* Calls of defined functions of 0, 1 and 2 parameters with 0, 1 and 2
\* arguments of every kind of value, and with an argument that raises.
ArgumentExprs ==
    { ExprInt(1), ExprBool(TRUE), ExprString(<<"s">>), ExprNull,
      ExprList(<<ExprInt(1)>>), ExprFunction(<<>>, <<>>),
      ExprIdentifier("undeclared") }

ArgumentLists ==
    {<<>>} \cup { <<a>> : a \in ArgumentExprs }
           \cup { <<a, b>> : a \in {ExprInt(1), ExprNull, ExprIdentifier("undeclared")},
                             b \in {ExprBool(TRUE), ExprIdentifier("undeclared")} }

CallSetup ==
    << ExprVariableDeclaration("k", ExprInt(0)),
       ExprVariableDeclaration("f0", ExprFunction(<<>>, <<ExprInt(7)>>)),
       ExprVariableDeclaration("f1",
            ExprFunction(<<"a">>, << ExprAssign("k", "Plus", ExprInt(1)),
                                     ExprIdentifier("a") >>)),
       ExprVariableDeclaration("f2",
            ExprFunction(<<"a", "b">>, << ExprAssign("k", "Plus", ExprInt(1)),
                                          ExprIdentifier("b") >>)),
       ExprVariableDeclaration("notfun", ExprInt(3)) >>

CallPrograms ==
    { CallSetup \o <<ExprCall(f, arguments), ExprIdentifier("a")>> :
        f \in {"f0", "f1", "f2", "notfun", "nowhere", "toString"},
        arguments \in ArgumentLists }

\* Where the free identifier x of a function body is looked up.
ReadX == ExprFunction(<<>>, <<ExprIdentifier("x")>>)

\* Each program with the value x has in the innermost scope that declares it
\* when g is called.
ClosureCases ==
    { \* the global scope at call time
      [ast |-> << ExprVariableDeclaration("g", ReadX),
                  ExprVariableDeclaration("x", ExprInt(5)),
                  ExprCall("g", <<>>) >>,
       at_call |-> 5],
      \* the caller's block scope, before the global scope
      [ast |-> << ExprVariableDeclaration("g", ReadX),
                  ExprVariableDeclaration("x", ExprInt(5)),
                  ExprBlock(<< ExprVariableDeclaration("x", ExprInt(2)),
                               ExprCall("g", <<>>) >>) >>,
       at_call |-> 2],
      \* the call's own scope, before the caller's
      [ast |-> << ExprVariableDeclaration("g", ExprFunction(<<"x">>, <<ExprIdentifier("x")>>)),
                  ExprVariableDeclaration("x", ExprInt(5)),
                  ExprCall("g", <<ExprInt(3)>>) >>,
       at_call |-> 3],
      \* not the scope of the function literal
      [ast |-> << ExprVariableDeclaration("g", ExprNull),
                  ExprVariableDeclaration("x", ExprInt(9)),
                  ExprBlock(<< ExprVariableDeclaration("x", ExprInt(1)),
                               ExprAssign("g", "Set", ReadX) >>),
                  ExprCall("g", <<>>) >>,
       at_call |-> 9] }

ClosurePrograms == { c.ast : c \in ClosureCases }

\* A literal with the value it evaluates to.
Literal(e, v) == [e |-> e, v |-> v]

ListLiterals ==
    { Literal(ExprList(<<>>), <<>>),
      Literal(ExprList(<<ExprInt(1)>>), <<ValueInt(I64(1))>>),
      Literal(ExprList(<<ExprInt(1), ExprBool(TRUE)>>),
              <<ValueInt(I64(1)), ValueBool(TRUE)>>) }

AppendedLiterals ==
    { Literal(ExprInt(2), ValueInt(I64(2))),
      Literal(ExprNull, ValueNull),
      Literal(ExprString(<<"s">>), ValueString(<<"s">>)),
      Literal(ExprList(<<ExprInt(1)>>), ValueList(<<ValueInt(I64(1))>>)),
      Literal(ExprList(<<>>), ValueList(<<>>)) }

\* var a = L  var b = L  a + v, with the list L and the value v
ListCases ==
    { [ast |-> << ExprVariableDeclaration("a", l.e),
                  ExprVariableDeclaration("b", l.e),
                  ExprBinary(ExprIdentifier("a"), "Plus", a.e) >>,
       L |-> l.v, v |-> a.v] : l \in ListLiterals, a \in AppendedLiterals }

ListPrograms == { c.ast : c \in ListCases }

\* var k = 1  var bump = fun() { k *= 10  R }
\* var r = { k += 1  L } op { k *= 10  R }      (or: op bump())
\* k
\* The left operand adds 1 to k and the right one multiplies k by 10, so k
\* tells which operands were evaluated and in which order.
LogicalProgram(operator, left, right, by_call) ==
    << ExprVariableDeclaration("k", ExprInt(1)),
       ExprVariableDeclaration("bump",
            ExprFunction(<<>>, << ExprAssign("k", "Multiply", ExprInt(10)), right >>)),
       ExprVariableDeclaration("r",
            ExprBinary(ExprBlock(<< ExprAssign("k", "Plus", ExprInt(1)), left >>),
                       operator,
                       IF by_call THEN ExprCall("bump", <<>>)
                       ELSE ExprBlock(<< ExprAssign("k", "Multiply", ExprInt(10)),
                                         right >>))),
       ExprIdentifier("k") >>

LogicalCases ==
    { [ast |-> LogicalProgram(operator, left, ExprBool(right), by_call),
       operator |-> operator, left |-> left, right |-> right, by_call |-> by_call] :
        operator \in {"LogicalAnd", "LogicalOr"},
        left \in {ExprBool(TRUE), ExprBool(FALSE), ExprInt(5)},
        right \in BOOLEAN, by_call \in BOOLEAN }

LogicalPrograms == { c.ast : c \in LogicalCases }

\* The identifiers of the builtin functions, and a call through each.
BuiltinIdentifiers == {"printLn", "toString", "readLn", "len"}

BuiltinCall(id) == << ExprCall(id, << ExprList(<< ExprInt(1) >>) >>) >>

BuiltinCallPrograms == { BuiltinCall(id) : id \in BuiltinIdentifiers }

\* A function whose body raises continue or break inside an if, called at
\* the top level and in a loop:
\* var k = 0  var h = fun() { if true { <signal> } }  h()
\* var k = 0  var h = fun() { if true { <signal> } }  loop { .. h() }
SignalInIf(sig) ==
    ExprFunction(<<>>, << ExprIf(<<IfClause(ExprBool(TRUE), <<SignalExpr(sig)>>)>>,
                                 Absent) >>)

NestedSignalPrograms ==
    { << ExprVariableDeclaration("k", ExprInt(0)),
         ExprVariableDeclaration("h", SignalInIf(sig)),
         site,
         ExprIdentifier("k") >> :
        sig \in {"continue", "break"},
        site \in { ExprCall("h", <<>>), BareLoop(<<ExprCall("h", <<>>)>>) } }

Programs ==
    TopLevelPrograms \cup LoopPrograms \cup BareLoopPrograms
        \cup LoopControlPrograms \cup CallPrograms \cup ClosurePrograms
        \cup ListPrograms \cup LogicalPrograms \cup BuiltinCallPrograms
        \cup NestedSignalPrograms

(***************************************************************************)
(* The interpreter as a state machine: Interpreter::new, then eval calls.  *)
(***************************************************************************)
MaxEvals == 1

NoOutcome == [tag |-> "None"]

NoCall == [op |-> "none"]

Init ==
    /\ scopes = default
    /\ outcome = NoOutcome
    /\ trace = <<>>
    /\ program = <<>>
    /\ evals = 0
    /\ overflow_checks \in BOOLEAN
    /\ call = NoCall

\* interpreter.eval(source), source parsed to the AST ast
Eval(ast) ==
    /\ evals < MaxEvals
    /\ ~Unwinds(outcome)
    /\ \E r \in {eval(scopes, ast)} :
        /\ scopes' = r.st.scopes
        /\ outcome' = r.res
        /\ trace' = r.st.trace
    /\ program' = ast
    /\ evals' = evals + 1
    /\ UNCHANGED <<overflow_checks, call>>

Next == \E ast \in Programs : Eval(ast)

Spec == Init /\ [][Next]_vars

(***************************************************************************)
(* Reading the trace of the last eval.                                     *)
(***************************************************************************)
Kind(i) == trace[i][1]

IsEnter(i, type) == Kind(i) = "enter" /\ trace[i][3] = type

\* event j is the exit of the expression entered at event i
IsExitOf(j, i) == Kind(j) = "exit" /\ trace[j][2] = trace[i][2]

IsLoopEvent(j, n) == Kind(j) = "loop" /\ trace[j][2] = n

IsCallEvent(j, n, what) ==
    Kind(j) = "call" /\ trace[j][2] = n /\ trace[j][3] = what

\* the Result is one a Rust function returns (not a panic, not a run cut off)
Returned(tag) == tag \in {"Ok", "Exception", "Continue", "Break"}

\* the call entered at event i found a defined function and pushed its scope
CallsDefined(i) == \E j \in DOMAIN trace : IsCallEvent(j, trace[i][2], "push")

UnhandledException(e) == [tag |-> "UnhandledException", exception |-> e]

\* C1: every call of a defined function leaves the scope stack as deep as it
\* found it, whether it returns a value, fails with WrongNumberOfArguments,
\* or its body raises an exception, Continue or Break.
C1_CallPopsItsScope ==
    \A i, j \in DOMAIN trace :
        ( /\ IsEnter(i, "Call")
          /\ IsExitOf(j, i)
          /\ CallsDefined(i)
          /\ Returned(trace[j][5]) )
        => trace[j][4] = trace[i][4]

\* C2: every loop leaves the scope stack as deep as it found it, on every
\* exit path (test false, Break, an exception in init, test, body or update).
C2_LoopPopsItsScope ==
    \A i, j \in DOMAIN trace :
        ( /\ IsEnter(i, "Loop")
          /\ IsExitOf(j, i)
          /\ Returned(trace[j][5]) )
        => trace[j][4] = trace[i][4]

\* eval reached the last top-level expression of the program
ProbeReached ==
    \E j \in DOMAIN trace : Kind(j) = "top" /\ trace[j][2] = Len(program)

DeclaredAtTopLevel(id) ==
    \E k \in DOMAIN program :
        program[k].type = "VariableDeclaration" /\ program[k].identifier = id

\* the identifier the expression reads or assigns, "" when it does neither
Probed(expression) ==
    CASE expression.type = "Identifier" -> expression.id
      [] expression.type = "Assign" -> expression.identifier
      [] OTHER -> ""

\* C3: after a block, an if body or a loop has finished and evaluation
\* continues with the next expression, an identifier declared only inside it
\* is not visible: reading or assigning it fails with UndeclaredIdentifier.
C3_LocalsEndWithTheirConstruct ==
    ( /\ evals = 1
      /\ ProbeReached
      /\ Probed(program[Len(program)]) \in {"i", "t"}
      /\ ~DeclaredAtTopLevel(Probed(program[Len(program)])) )
    => outcome = UnhandledException("UndeclaredIdentifier")

\* the next event of loop n after event j, 0 when there is none
NextLoopEvent(j, n) ==
    IF \E m \in (j + 1)..Len(trace) : IsLoopEvent(m, n)
    THEN CHOOSE m \in (j + 1)..Len(trace) :
            /\ IsLoopEvent(m, n)
            /\ \A l \in (j + 1)..(m - 1) : ~IsLoopEvent(l, n)
    ELSE 0

\* loop n has a test and an update expression
HasTestAndUpdate(n) ==
    \E j \in DOMAIN trace :
        /\ IsLoopEvent(j, n) /\ trace[j][3] = "start"
        /\ trace[j][4] /\ trace[j][5]

IsBodyEnd(j, tag) ==
    Kind(j) = "loop" /\ trace[j][3] = "body_end" /\ trace[j][4] = tag

IsRaise(r, tag) == Kind(r) = "raise" /\ trace[r][2].tag = tag

\* the signal that ends the body at event j was raised at an event r, and
\* nothing is entered between r and j: the rest of the body is skipped
RestOfBodySkipped(j, tag) ==
    \E r \in 1..(j - 1) :
        /\ IsRaise(r, tag)
        /\ \A m \in (r + 1)..(j - 1) : Kind(m) \in {"exit", "call"}

\* C4: in a loop with a test and an update, a body that ends with Continue
\* skips its rest, then the update is evaluated once and then the test; a body
\* that ends with Break skips its rest, neither update nor test is evaluated
\* again, and the loop returns normally.
C4_ContinueRunsUpdateBreakLeaves ==
    \A j \in DOMAIN trace :
        /\ ( IsBodyEnd(j, "Continue") /\ HasTestAndUpdate(trace[j][2]) ) =>
            /\ RestOfBodySkipped(j, "Continue")
            /\ j + 2 <= Len(trace)
            /\ IsLoopEvent(j + 1, trace[j][2]) /\ trace[j + 1][3] = "update"
            /\ Kind(j + 2) = "enter"
            /\ \A x \in (j + 3)..Len(trace) :
                ( IsExitOf(x, j + 2) /\ trace[x][5] = "Ok" ) =>
                    /\ x + 1 <= Len(trace)
                    /\ IsLoopEvent(x + 1, trace[j][2]) /\ trace[x + 1][3] = "test"
        /\ ( IsBodyEnd(j, "Break") /\ HasTestAndUpdate(trace[j][2]) ) =>
            /\ RestOfBodySkipped(j, "Break")
            /\ NextLoopEvent(j, trace[j][2]) = 0
            /\ j + 1 <= Len(trace)
            /\ Kind(j + 1) = "exit" /\ trace[j + 1][2] = trace[j][2]
            /\ trace[j + 1][5] = "Ok"

\* a loop with a test and an update whose body ended once with Continue and
\* later with Break
C4_Witness ==
    \E j, l \in DOMAIN trace :
        /\ j < l
        /\ IsBodyEnd(j, "Continue") /\ IsBodyEnd(l, "Break")
        /\ trace[j][2] = trace[l][2]
        /\ HasTestAndUpdate(trace[j][2])
        /\ outcome.tag = "Ok"

\* after event r nothing is evaluated: the remaining events only leave the
\* constructs that were open, each with the exception
OnlyUnwinding(r) ==
    \A m \in (r + 1)..Len(trace) :
        \/ Kind(m) = "exit" /\ trace[m][5] = "Exception"
        \/ IsBodyEnd(m, "Exception")
        \/ Kind(m) = "call" /\ trace[m][3] = "pop"

\* C5: once an exception is raised nothing more is evaluated (no loop test,
\* update or iteration, no remaining block or top-level expression, no later
\* argument) and eval returns UnhandledException with exactly that exception;
\* no loop absorbs it.
C5_ExceptionEndsTheRun ==
    \A r \in DOMAIN trace :
        IsRaise(r, "Exception") =>
            /\ OnlyUnwinding(r)
            /\ outcome = UnhandledException(trace[r][2].exception)

\* an exception raised inside a function called from the body of a loop that
\* has a test and an update
C5_Witness ==
    /\ outcome.tag = "UnhandledException"
    /\ \E j \in DOMAIN trace :
        /\ IsBodyEnd(j, "Exception") /\ HasTestAndUpdate(trace[j][2])
        /\ \E c \in 1..(j - 1) :
            /\ Kind(c) = "call" /\ trace[c][3] = "pop"
            /\ \E r \in 1..(c - 1) : IsRaise(r, "Exception")

\* the signal raised at event r ends no loop body: it reaches the top level
Escapes(r, signal) ==
    /\ IsRaise(r, signal)
    /\ \A j \in (r + 1)..Len(trace) : ~IsBodyEnd(j, signal)

\* C6: a Continue (Break) signal that no loop absorbs makes eval fail with
\* ContinueOutsideLoop (BreakOutsideLoop), and eval returns one of these two
\* errors only when such a signal reached the top level.
C6_EscapedSignalsAreErrors ==
    /\ (\E r \in DOMAIN trace : Escapes(r, "Continue"))
            <=> outcome = [tag |-> "ContinueOutsideLoop"]
    /\ (\E r \in DOMAIN trace : Escapes(r, "Break"))
            <=> outcome = [tag |-> "BreakOutsideLoop"]

\* a continue raised in the body of a called function and not absorbed by
\* any loop
C6_Witness ==
    \E r, c \in DOMAIN trace :
        /\ r < c
        /\ Escapes(r, "Continue")
        /\ Kind(c) = "call" /\ trace[c][3] = "pop"
        /\ outcome.tag = "ContinueOutsideLoop"

\* a break that left an if body at the top level
C6_WitnessBreak ==
    \E r, x \in DOMAIN trace :
        /\ r < x
        /\ Escapes(r, "Break")
        /\ Kind(x) = "exit" /\ trace[x][3] = "If"
        /\ outcome.tag = "BreakOutsideLoop"

\* an expression that evaluates to a value without looking anything up
IsLiteral(expression) ==
    expression.type \in {"Int", "Bool", "String", "Null", "List", "Function"}

\* the top-level expression k calls a function declared at the top level with
\* a function literal, with the wrong number of literal arguments
WrongArityCall(k) ==
    /\ program[k].type = "Call"
    /\ \A a \in DOMAIN program[k].arguments : IsLiteral(program[k].arguments[a])
    /\ \E d \in 1..(k - 1) :
        /\ program[d].type = "VariableDeclaration"
        /\ program[d].identifier = program[k].identifier
        /\ program[d].expression.type = "Function"
        /\ Len(program[d].expression.parameters) # Len(program[k].arguments)

\* C7: a call of a defined function of n parameters with m # n arguments
\* fails with WrongNumberOfArguments whatever the kinds of the argument
\* values; no parameter is bound and the body is not evaluated.
C7_WrongArityFails ==
    /\ \A j \in DOMAIN trace :
        ( Kind(j) = "call" /\ trace[j][3] = "push" /\ trace[j][4] # trace[j][5] ) =>
            /\ j + 1 <= Len(trace)
            /\ IsRaise(j + 1, "Exception")
            /\ trace[j + 1][2].exception = "WrongNumberOfArguments"
            /\ \A m \in (j + 1)..Len(trace) :
                    ~IsCallEvent(m, trace[j][2], "bind")
                 /\ ~IsCallEvent(m, trace[j][2], "body")
                 /\ Kind(m) # "enter"
            /\ outcome = UnhandledException("WrongNumberOfArguments")
    /\ \A k \in DOMAIN program :
        ( WrongArityCall(k) /\ \E j \in DOMAIN trace : Kind(j) = "top" /\ trace[j][2] = k )
            => outcome = UnhandledException("WrongNumberOfArguments")

\* a function of one parameter called with two literal arguments
C7_Witness ==
    \E k \in DOMAIN program, j \in DOMAIN trace :
        /\ WrongArityCall(k)
        /\ Len(program[k].arguments) = 2
        /\ Kind(j) = "call" /\ trace[j][3] = "push"
        /\ trace[j][4] = 1 /\ trace[j][5] = 2
        /\ outcome = UnhandledException("WrongNumberOfArguments")

(***************************************************************************)
(* The Environment on its own: its methods applied in any order.           *)
(***************************************************************************)
MaxScopes == 3

EnvIds == {"x", "y"}

EnvValues == {ValueInt(I64(1)), ValueNull}

InitEnv ==
    /\ scopes = new
    /\ outcome = NoOutcome
    /\ trace = <<>>
    /\ program = <<>>
    /\ evals = 0
    /\ overflow_checks = FALSE
    /\ call = NoCall

EnvPush ==
    /\ ~Unwinds(outcome)
    /\ Len(scopes) < MaxScopes
    /\ scopes' = push(scopes)
    /\ call' = [op |-> "push"]
    /\ UNCHANGED <<outcome, trace, program, evals, overflow_checks>>

EnvPop ==
    /\ ~Unwinds(outcome)
    /\ scopes' = pop(scopes)
    /\ call' = [op |-> "pop"]
    /\ UNCHANGED <<outcome, trace, program, evals, overflow_checks>>

EnvDeclare(id, value) ==
    /\ ~Unwinds(outcome)
    /\ \E r \in {declare(scopes, id, value)} :
        /\ scopes' = r.scopes
        /\ outcome' = IF Unwinds(r.res) THEN r.res ELSE outcome
        /\ call' = [op |-> "declare", id |-> id, value |-> value]
    /\ UNCHANGED <<trace, program, evals, overflow_checks>>

EnvAssign(id, value) ==
    /\ ~Unwinds(outcome)
    /\ \E r \in {assign(scopes, id, value)} :
        /\ scopes' = r.scopes
        /\ call' = [op |-> "assign", id |-> id, value |-> value, res |-> r.res]
    /\ UNCHANGED <<outcome, trace, program, evals, overflow_checks>>

EnvGet(id) ==
    /\ ~Unwinds(outcome)
    /\ call' = [op |-> "get", id |-> id, found |-> get(scopes, id)]
    /\ UNCHANGED <<scopes, outcome, trace, program, evals, overflow_checks>>

NextEnv ==
    \/ EnvPush
    \/ EnvPop
    \/ \E id \in EnvIds, value \in EnvValues : EnvDeclare(id, value)
    \/ \E id \in EnvIds, value \in EnvValues : EnvAssign(id, value)
    \/ \E id \in EnvIds : EnvGet(id)

SpecEnv == InitEnv /\ [][NextEnv]_vars

\* the scopes of the environment that declare id
Declaring(id) == { k \in DOMAIN scopes : id \in DOMAIN scopes[k] }

\* what the step that applied assign(id, value) did to the environment
AssignChangesOneBinding ==
    IF Declaring(call'.id) # {}
    THEN LET i == CHOOSE k \in Declaring(call'.id) :
                    \A m \in Declaring(call'.id) : m <= k
         IN  /\ call'.res.tag = "Ok"
             /\ Len(scopes') = Len(scopes)
             /\ \A k \in DOMAIN scopes :
                    /\ DOMAIN scopes'[k] = DOMAIN scopes[k]
                    /\ \A x \in DOMAIN scopes[k] :
                        scopes'[k][x] = IF k = i /\ x = call'.id
                                        THEN call'.value
                                        ELSE scopes[k][x]
    ELSE /\ call'.res = Exception("UndeclaredIdentifier")
         /\ scopes' = scopes

\* C8: assign(id, v) changes exactly the binding of id in the innermost scope
\* that already declares id, and no other binding, scope or the number of
\* scopes; when no scope declares id it fails with UndeclaredIdentifier and
\* leaves the environment as it was.
C8_AssignFrame == [][call'.op = "assign" => AssignChangesOneBinding]_vars

\* an assign that skipped the innermost scope, which does not declare the
\* identifier, and wrote the middle one while the global scope shadows it
C8_Witness ==
    /\ call.op = "assign"
    /\ call.res.tag = "Ok"
    /\ Len(scopes) = 3
    /\ call.id \notin DOMAIN scopes[3]
    /\ DOMAIN scopes[3] # {}
    /\ call.id \in DOMAIN scopes[2]
    /\ scopes[2][call.id] = call.value
    /\ call.id \in DOMAIN scopes[1]
    /\ scopes[1][call.id] # call.value

\* the last top-level expression is the call g()
ProbeCallsG ==
    /\ ProbeReached
    /\ program[Len(program)].type = "Call"
    /\ program[Len(program)].identifier = "g"

\* C9: a function value does not capture the scope of its literal; the free
\* identifiers of its body are resolved against the scope stack at call time
\* (the call's scope, the caller's scopes, the global scope), so a variable
\* local to the defining block that has since exited is UndeclaredIdentifier
\* inside the call.
C9_ResolvedAtCallTime ==
    /\ \A c \in ClosureCases :
        ( evals = 1 /\ program = c.ast ) => outcome = Ok(ValueInt(I64(c.at_call)))
    /\ ( /\ evals = 1
         /\ ProbeCallsG
         /\ ~DeclaredAtTopLevel("t")
         /\ get(scopes, "g") = Some(ValueFunction(FunctionDefined(<<>>, <<ReadT>>))) )
       => outcome = UnhandledException("UndeclaredIdentifier")

(***************************************************************************)
(* The operator functions on their own: each applied once to a pair of     *)
(* operand values of every kind.                                           *)
(***************************************************************************)
OperandValues ==
    { ValueInt(I64(0)), ValueInt(I64(1)), ValueInt(I64(-1)), ValueInt(I64(70000)),
      ValueInt(I64Max), ValueInt(I64Min),
      ValueInt(I64(2)), ValueInt(I64(-2)), ValueInt(I64(3)),
      ValueInt(I64(63)), ValueInt(I64(64)),
      ValueInt(<<0, 0, 1, 0>>), ValueInt(<<0, 0, LimbBase - 1, LimbBase - 1>>),
      ValueString(<<>>), ValueString(<<"a">>), ValueString(<<"b", "c">>),
      ValueBool(TRUE), ValueBool(FALSE), ValueNull,
      ValueList(<<>>), ValueList(<<ValueInt(I64(1))>>),
      ValueList(<<ValueList(<<ValueInt(I64(1))>>), ValueNull>>),
      ValueList(<<ValueFunction(FunctionBuiltin("print_ln"))>>),
      ValueFunction(FunctionBuiltin("print_ln")),
      ValueFunction(FunctionDefined(<<>>, <<>>)) }

InitOps ==
    /\ scopes = default
    /\ outcome = NoOutcome
    /\ trace = <<>>
    /\ program = <<>>
    /\ evals = 0
    /\ overflow_checks \in BOOLEAN
    /\ \E left, right \in OperandValues :
        call = [op |-> "operands", left |-> left, right |-> right]

ApplyPlus ==
    /\ call.op = "operands"
    /\ call' = [op |-> "plus", left |-> call.left, right |-> call.right,
                res |-> plus(call.left, call.right)]
    /\ UNCHANGED <<scopes, outcome, trace, program, evals, overflow_checks>>

ApplyExponent ==
    /\ call.op = "operands"
    /\ call' = [op |-> "exponent", left |-> call.left, right |-> call.right,
                res |-> exponent(call.left, call.right)]
    /\ UNCHANGED <<scopes, outcome, trace, program, evals, overflow_checks>>

ApplyLogicalAnd ==
    /\ call.op = "operands"
    /\ call' = [op |-> "logical_and", left |-> call.left, right |-> call.right,
                truth |-> logical_and(call.left, call.right)]
    /\ UNCHANGED <<scopes, outcome, trace, program, evals, overflow_checks>>

ApplyLogicalOr ==
    /\ call.op = "operands"
    /\ call' = [op |-> "logical_or", left |-> call.left, right |-> call.right,
                truth |-> logical_or(call.left, call.right)]
    /\ UNCHANGED <<scopes, outcome, trace, program, evals, overflow_checks>>

\* is_equal and is_not_equal applied to the same pair of operands
ApplyEquality ==
    /\ call.op = "operands"
    /\ call' = [op |-> "equality", left |-> call.left, right |-> call.right,
                equal |-> is_equal(call.left, call.right),
                not_equal |-> is_not_equal(call.left, call.right)]
    /\ UNCHANGED <<scopes, outcome, trace, program, evals, overflow_checks>>

ApplyDivision ==
    /\ call.op = "operands"
    /\ call' = [op |-> "division", left |-> call.left, right |-> call.right,
                quotient |-> divide(call.left, call.right),
                remainder |-> modulo(call.left, call.right)]
    /\ UNCHANGED <<scopes, outcome, trace, program, evals, overflow_checks>>

NextOps ==
    \/ ApplyPlus
    \/ ApplyExponent
    \/ ApplyLogicalAnd
    \/ ApplyLogicalOr
    \/ ApplyEquality
    \/ ApplyDivision

SpecOps == InitOps /\ [][NextOps]_vars

\* an i64 widened by one limb of sign
SignExtend(a) == a \o << IF a[4] >= LimbBase \div 2 THEN LimbBase - 1 ELSE 0 >>

\* the sum of two i64 as an integer of five limbs, which always holds it
IntegerSum(a, b) ==
    LET x == SignExtend(a)
        y == SignExtend(b)
        s1 == x[1] + y[1]
        s2 == x[2] + y[2] + (s1 \div LimbBase)
        s3 == x[3] + y[3] + (s2 \div LimbBase)
        s4 == x[4] + y[4] + (s3 \div LimbBase)
        s5 == x[5] + y[5] + (s4 \div LimbBase)
    IN  <<s1 % LimbBase, s2 % LimbBase, s3 % LimbBase, s4 % LimbBase, s5 % LimbBase>>

\* C10: left + right is the integer sum of two integers, the concatenation
\* of two strings, the left list with the right operand appended as one
\* element; every other combination fails with ValueIsWrongType.
C10_PlusByKind ==
    call.op = "plus" =>
        CASE call.left.kind = "Int" /\ call.right.kind = "Int" ->
                /\ call.res.tag = "Ok"
                /\ call.res.val.kind = "Int"
                /\ SignExtend(call.res.val.int) = IntegerSum(call.left.int, call.right.int)
          [] call.left.kind = "String" /\ call.right.kind = "String" ->
                call.res = Ok(ValueString(call.left.str \o call.right.str))
          [] call.left.kind = "List" ->
                call.res = Ok(ValueList(Append(call.left.list, call.right)))
          [] OTHER -> call.res = Exception("ValueIsWrongType")

\* C11: for a list L held by a variable and a value v, L + v is a list of
\* one more element than L, the elements of L in order and then v; the
\* variable still holds the unchanged L, and so does another variable that
\* was bound to an equal list.
C11_AppendCopies ==
    \A c \in ListCases :
        ( evals = 1 /\ program = c.ast ) =>
            /\ outcome.tag = "Ok"
            /\ outcome.val.kind = "List"
            /\ Len(outcome.val.list) = Len(c.L) + 1
            /\ \A i \in DOMAIN c.L : outcome.val.list[i] = c.L[i]
            /\ outcome.val.list[Len(c.L) + 1] = c.v
            /\ get(scopes, "a") = Some(ValueList(c.L))
            /\ get(scopes, "b") = Some(ValueList(c.L))

\* a list of two elements appended with a list, which becomes its one new
\* element
C11_Witness ==
    \E c \in ListCases :
        /\ evals = 1 /\ program = c.ast
        /\ Len(c.L) = 2
        /\ c.v.kind = "List" /\ Len(c.v.list) = 1
        /\ outcome = Ok(ValueList(Append(c.L, c.v)))

\* exponent was applied to two integers
ExponentOfIntegers ==
    call.op = "exponent" /\ call.left.kind = "Int" /\ call.right.kind = "Int"

\* C12: for every integer base b and exponent e < 0, b ** e fails with
\* ExponentiationOverflowed.
C12_NegativeExponentFails ==
    ( ExponentOfIntegers /\ IsNegative(call.right.int) )
        => call.res = Exception("ExponentiationOverflowed")

\* b multiplied n times by itself as i64, as long as the product is an i64
RECURSIVE RepeatedProduct(_, _)
RepeatedProduct(b, n) ==
    IF n = 0 THEN [fits |-> TRUE, power |-> <<1, 0, 0, 0>>]
    ELSE LET p == RepeatedProduct(b, n - 1)
         IN  IF ~p.fits \/ MulOverflows(p.power, b) THEN [fits |-> FALSE]
             ELSE [fits |-> TRUE, power |-> WrappingMul(p.power, b)]

\* the power b^e for e >= 0, when it is an i64: 0, 1 and -1 have powers of
\* every exponent, any other base exceeds an i64 from the exponent 64 on
MathematicalPower(b, e) ==
    CASE e = <<0, 0, 0, 0>> -> [fits |-> TRUE, power |-> <<1, 0, 0, 0>>]
      [] e # <<0, 0, 0, 0>> /\ b \in {<<0, 0, 0, 0>>, <<1, 0, 0, 0>>} ->
            [fits |-> TRUE, power |-> b]
      [] e # <<0, 0, 0, 0>> /\ b = WrappingNeg(<<1, 0, 0, 0>>) ->
            [fits |-> TRUE, power |-> IF e[1] % 2 = 0 THEN <<1, 0, 0, 0>> ELSE b]
      [] OTHER ->
            IF e[2] = 0 /\ e[3] = 0 /\ e[4] = 0 /\ e[1] < 64
            THEN RepeatedProduct(b, e[1])
            ELSE [fits |-> FALSE]

\* C13: for every integer base b and exponent e >= 0, b ** e is the exact
\* power b^e (0 ** 0 = 1) or fails with ExponentiationOverflowed; it is never
\* another integer, such as the wrapped or negative result of an overflow.
C13_PowerIsExactOrFails ==
    ( ExponentOfIntegers /\ ~IsNegative(call.right.int) ) =>
        \/ call.res = Exception("ExponentiationOverflowed")
        \/ /\ MathematicalPower(call.left.int, call.right.int).fits
           /\ call.res = Ok(ValueInt(MathematicalPower(call.left.int, call.right.int).power))

\* C15: && and || require boolean operands: when an operand is not a
\* boolean they fail with ValueIsWrongType, for two booleans they return the
\* conjunction and the disjunction.
C15_LogicalNeedsBooleans ==
    call.op \in {"logical_and", "logical_or"} =>
        IF call.left.kind = "Bool" /\ call.right.kind = "Bool"
        THEN call.truth = Ok(IF call.op = "logical_and"
                             THEN call.left.bool /\ call.right.bool
                             ELSE call.left.bool \/ call.right.bool)
        ELSE call.truth = Exception("ValueIsWrongType")

RECURSIVE ContainsFunction(_)
ContainsFunction(v) ==
    CASE v.kind = "Function" -> TRUE
      [] v.kind = "List" -> \E i \in DOMAIN v.list : ContainsFunction(v.list[i])
      [] OTHER -> FALSE

C16_WitnessLists ==
    /\ call.op = "equality"
    /\ call.left.kind = "List" /\ Len(call.left.list) = 2
    /\ call.left = call.right
    /\ call.equal /\ ~call.not_equal

\* C14: both operands of && and || are evaluated, the left before the
\* right, whatever the value of the left operand: the side effects of the
\* right operand take place even when the left operand decides the result.
C14_BothOperandsEvaluated ==
    \A c \in LogicalCases :
        ( evals = 1 /\ program = c.ast ) =>
            /\ get(scopes, "k") = Some(ValueInt(I64(20)))
            /\ c.left.type = "Bool" =>
                /\ outcome = Ok(ValueInt(I64(20)))
                /\ get(scopes, "r") =
                        Some(ValueBool(IF c.operator = "LogicalAnd"
                                       THEN c.left.bool /\ c.right
                                       ELSE c.left.bool \/ c.right))

\* false && bump(): the left operand decides, and the call still ran
C14_Witness ==
    \E c \in LogicalCases :
        /\ evals = 1 /\ program = c.ast
        /\ c.operator = "LogicalAnd" /\ c.left = ExprBool(FALSE) /\ c.by_call
        /\ get(scopes, "k") = Some(ValueInt(I64(20)))
        /\ get(scopes, "r") = Some(ValueBool(FALSE))

(***************************************************************************)
(* The two spellings of a compound assignment, `x op= e` and `x = x op e`, *)
(* each evaluated as a program of one expression in the same environment.  *)
(***************************************************************************)
\* the binary operator of each compound assignment operator
BinaryOperatorOf(operator) ==
    CASE operator = "Plus" -> "Plus"
      [] operator = "Minus" -> "Minus"
      [] operator = "Multiply" -> "Multiply"
      [] operator = "Divide" -> "Divide"
      [] operator = "Modulo" -> "Modulus"

CompoundOperators == {"Plus", "Minus", "Multiply", "Divide", "Modulo"}

\* environments in which x is undeclared, global, or shadowed in a block
AssignEnvironments ==
    {default}
        \cup { declare(default, "x", v).scopes :
                v \in {ValueInt(I64(6)), ValueInt(I64(0)), ValueInt(I64Max),
                       ValueString(<<"a">>), ValueList(<<ValueInt(I64(1))>>)} }
        \cup { declare(push(declare(default, "x", ValueInt(I64(6))).scopes),
                       "x", ValueInt(I64(7))).scopes }

\* right sides: literals, a read of x, an undeclared identifier, and blocks
\* that reassign x before giving their value
AssignedExpressions ==
    { ExprInt(2), ExprInt(0), ExprString(<<"b">>),
      ExprIdentifier("x"), ExprIdentifier("undeclared"),
      ExprBlock(<< ExprAssign("x", "Set", ExprInt(10)), ExprInt(3) >>),
      ExprBlock(<< ExprUpdate("x", "Increment"), ExprIdentifier("x") >>) }

InitAssign ==
    /\ scopes \in AssignEnvironments
    /\ outcome = NoOutcome
    /\ trace = <<>>
    /\ program = <<>>
    /\ evals = 0
    /\ overflow_checks \in BOOLEAN
    /\ \E operator \in CompoundOperators, e \in AssignedExpressions :
        call = [op |-> "assignment", operator |-> operator, e |-> e]

\* what an eval of the one-expression program leaves: environment and outcome
Ran(r) == [scopes |-> r.st.scopes, outcome |-> r.res]

EvalBothSpellings ==
    /\ call.op = "assignment"
    /\ call' = [op |-> "assigned", operator |-> call.operator, e |-> call.e,
                compound |-> Ran(eval(scopes,
                    << ExprAssign("x", call.operator, call.e) >>)),
                plain |-> Ran(eval(scopes,
                    << ExprAssign("x", "Set",
                           ExprBinary(ExprIdentifier("x"),
                                      BinaryOperatorOf(call.operator), call.e)) >>))]
    /\ UNCHANGED <<scopes, outcome, trace, program, evals, overflow_checks>>

NextAssign == EvalBothSpellings

SpecAssign == InitAssign /\ [][NextAssign]_vars

\* C17: the compound assignment x op= e (op one of + - * / %) ends in the
\* same environment and with the same outcome as x = x op e, also when
\* evaluating e reads or reassigns x.
C17_CompoundIsPlainAssignment ==
    call.op = "assigned" =>
        /\ call.compound.outcome = call.plain.outcome
        /\ call.compound.scopes = call.plain.scopes

(***************************************************************************)
(* lexer.rs: Location::from_index and tokenize.  A source is a sequence of *)
(* characters; positions count from 1, so that c here is self.c + 1.  A    *)
(* token is a record [token, value, text].  A read of source[c] past the   *)
(* end of the source is the panic of the index check.                      *)
(***************************************************************************)
Digits == <<"0", "1", "2", "3", "4", "5", "6", "7", "8", "9">>

is_digit(ch) == \E d \in 1..10 : Digits[d] = ch

to_digit(ch) == (CHOOSE d \in 1..10 : Digits[d] = ch) - 1

Letters ==
    { "a", "b", "c", "d", "e", "f", "g", "h", "i", "j", "k", "l", "m",
      "n", "o", "p", "q", "r", "s", "t", "u", "v", "w", "x", "y", "z" }

is_alphanumeric(ch) == ch \in Letters \/ is_digit(ch)

is_whitespace(ch) == ch \in {" ", "\n", "\t"}

\* KEYWORDS.get(value), the token of a word
KEYWORDS(value) ==
    CASE value = <<"f", "u", "n">> -> "KeywordFun"
      [] value = <<"t", "r", "u", "e">> -> "KeywordTrue"
      [] value = <<"f", "a", "l", "s", "e">> -> "KeywordFalse"
      [] value = <<"n", "u", "l", "l">> -> "KeywordNull"
      [] value = <<"v", "a", "r">> -> "KeywordVar"
      [] value = <<"i", "f">> -> "KeywordIf"
      [] value = <<"e", "l", "i", "f">> -> "KeywordElif"
      [] value = <<"e", "l", "s", "e">> -> "KeywordElse"
      [] value = <<"w", "h", "i", "l", "e">> -> "KeywordWhile"
      [] value = <<"f", "o", "r">> -> "KeywordFor"
      [] value = <<"l", "o", "o", "p">> -> "KeywordLoop"
      [] value = <<"c", "o", "n", "t", "i", "n", "u", "e">> -> "KeywordContinue"
      [] value = <<"b", "r", "e", "a", "k">> -> "KeywordBreak"
      [] OTHER -> "Identifier"

Token(token) == [token |-> token, value |-> <<0, 0, 0, 0>>, text |-> <<>>]

TokenInt(value) == [token |-> "Int", value |-> value, text |-> <<>>]

TokenText(token, text) == [token |-> token, value |-> <<0, 0, 0, 0>>, text |-> text]

IndexOutOfBounds == Panic("index out of bounds")

\* Location::from_index(source, index), index counted from 0.  For an index
\* past the end the target is source.len() - 1: on the empty source the
\* subtraction overflows (a panic when the build checks overflow) or wraps to
\* usize::MAX, and then source[0] is read.
from_index(source, index) ==
    IF index > Len(source) /\ Len(source) = 0
    THEN IF overflow_checks THEN Panic("attempt to subtract with overflow")
         ELSE IndexOutOfBounds
    ELSE LET target == IF index > Len(source) THEN Len(source) - 1 ELSE index
             newlines == {i \in 1..target : source[i] = "\n"}
             last == IF newlines = {} THEN 0
                     ELSE CHOOSE i \in newlines : \A j \in newlines : j <= i
         IN  Ok([row |-> 1 + Cardinality(newlines), col |-> 1 + target - last])

\* source[c + 1], or a space past the end
next_or_space(source, c) == IF c + 1 <= Len(source) THEN source[c + 1] ELSE " "

NoToken == [some |-> FALSE]

SomeToken(token, width) == [some |-> TRUE, token |-> token, width |-> width]

\* with(a, b): the token a when the next character is `second`, else b
TwoChars(source, c, second, a, b) ==
    IF next_or_space(source, c) = second THEN SomeToken(a, 2)
    ELSE IF b = "" THEN NoToken ELSE SomeToken(b, 1)

\* the match on self.source[self.c] for the one and two character tokens,
\* with the number of characters the token takes
SimpleToken(source, c) ==
    LET ch == source[c]
    IN  CASE ch = "(" -> SomeToken("OpenParenthesis", 1)
          [] ch = ")" -> SomeToken("CloseParenthesis", 1)
          [] ch = "{" -> SomeToken("OpenBrace", 1)
          [] ch = "}" -> SomeToken("CloseBrace", 1)
          [] ch = "+" -> SomeToken("PlusSign", 1)
          [] ch = "-" -> SomeToken("MinusSign", 1)
          [] ch = "/" -> SomeToken("DivisionSign", 1)
          [] ch = "%" -> SomeToken("ModuloSign", 1)
          [] ch = "*" -> TwoChars(source, c, "*", "ExponentSign", "MultiplicationSign")
          [] ch = "&" -> TwoChars(source, c, "&", "And", "")
          [] ch = "|" -> TwoChars(source, c, "|", "Or", "")
          [] ch = "!" -> TwoChars(source, c, "=", "IsNotEqual", "")
          [] ch = "=" -> TwoChars(source, c, "=", "IsEqual", "EqualSign")
          [] ch = "<" -> TwoChars(source, c, "=", "IsLessThanOrEqual", "IsLessThan")
          [] ch = ">" -> TwoChars(source, c, "=", "IsGreaterThanOrEqual", "IsGreaterThan")
          [] OTHER -> NoToken

\* while self.c < len && !(current == ']' && next_or_space == '#') { advance }
RECURSIVE SkipBlockComment(_, _)
SkipBlockComment(source, c) ==
    IF c <= Len(source) /\ ~(source[c] = "]" /\ next_or_space(source, c) = "#")
    THEN SkipBlockComment(source, c + 1)
    ELSE c

\* while self.c < len && current != '\n' { advance }
RECURSIVE SkipLineComment(_, _)
SkipLineComment(source, c) ==
    IF c <= Len(source) /\ source[c] # "\n"
    THEN SkipLineComment(source, c + 1)
    ELSE c

\* the comment whose `#` is at c: the position where the scan goes on, or
\* the panic of self.current() when the `#` is the last character
Comment(source, c) ==
    IF c + 1 > Len(source) THEN IndexOutOfBounds
    ELSE IF source[c + 1] = "[" THEN [tag |-> "Ok", c |-> SkipBlockComment(source, c + 1) + 2]
    ELSE [tag |-> "Ok", c |-> SkipLineComment(source, c + 1) + 1]

\* the string token, from the character after the opening quote: the text up
\* to the closing quote or the end of the source, and the position after it
RECURSIVE StringToken(_, _, _)
StringToken(source, c, value) ==
    IF c <= Len(source) /\ source[c] # "\""
    THEN StringToken(source, c + 1, Append(value, source[c]))
    ELSE [tag |-> "Ok", c |-> c + 1, text |-> value]

\* the digits of the int token: value = value * 10 + digit while digits
\* follow; gives the position after them and the value, or the panic of
\* the arithmetic
RECURSIVE IntToken(_, _, _)
IntToken(source, c, value) ==
    IF c <= Len(source) /\ is_digit(source[c])
    THEN LET shifted == i64_mul(value, I64(10))
         IN  IF shifted.tag # "Ok" THEN shifted
             ELSE LET added == i64_add(shifted.val, I64(to_digit(source[c])))
                  IN  IF added.tag # "Ok" THEN added
                      ELSE IntToken(source, c + 1, added.val)
    ELSE [tag |-> "Ok", c |-> c, val |-> value]

\* if negative { value *= -1 }
Negative(digits) ==
    IF digits.tag # "Ok" THEN digits
    ELSE IF i64_mul(digits.val, I64(-1)).tag # "Ok" THEN i64_mul(digits.val, I64(-1))
    ELSE [tag |-> "Ok", c |-> digits.c, val |-> i64_mul(digits.val, I64(-1)).val]

\* the int token at a digit or at a `-`
IntLiteral(source, c) ==
    IF source[c] = "-"
    THEN Negative(IntToken(source, c + 1, <<0, 0, 0, 0>>))
    ELSE IntToken(source, c, <<0, 0, 0, 0>>)

\* the identifier or keyword: the run of alphanumeric characters
RECURSIVE IdentifierToken(_, _, _)
IdentifierToken(source, c, value) ==
    IF c <= Len(source) /\ is_alphanumeric(source[c]) /\ ~is_whitespace(source[c])
    THEN IdentifierToken(source, c + 1, Append(value, source[c]))
    ELSE [tag |-> "Ok", c |-> c, text |-> value]

UnexpectedCharacter(location, char) ==
    [tag |-> "LexerError", error |-> "UnexpectedCharacter",
     location |-> location, char |-> char]

\* result.push(EndOfFile) with Location::from_index(&self.source, usize::MAX),
\* any index past the end
EndOfFile(source, result) ==
    IF from_index(source, Len(source) + 1).tag # "Ok"
    THEN from_index(source, Len(source) + 1)
    ELSE Ok(Append(result, Token("EndOfFile")))

RECURSIVE tokenize(_, _, _)
\* the scan goes on after a comment, a string, an int or a word
Scanned(source, result, token, scan) ==
    IF scan.tag # "Ok" THEN scan
    ELSE CASE token = "Comment" -> tokenize(source, scan.c, result)
           [] token = "Int" -> tokenize(source, scan.c, Append(result, TokenInt(scan.val)))
           [] token = "String" ->
                tokenize(source, scan.c, Append(result, TokenText("String", scan.text)))
           [] token = "Identifier" ->
                tokenize(source, scan.c,
                         Append(result, IF KEYWORDS(scan.text) = "Identifier"
                                        THEN TokenText("Identifier", scan.text)
                                        ELSE Token(KEYWORDS(scan.text))))

\* the token pushed by the match on the one and two character tokens
Simple(source, c, result, simple) ==
    tokenize(source, c + simple.width, Append(result, Token(simple.token)))

\* while self.c < self.source.len() { .. }; result.push(EndOfFile)
tokenize(source, c, result) ==
    IF c > Len(source) THEN EndOfFile(source, result)
    ELSE IF SimpleToken(source, c).some
    THEN Simple(source, c, result, SimpleToken(source, c))
    ELSE IF is_whitespace(source[c]) THEN tokenize(source, c + 1, result)
    ELSE IF source[c] = "#" THEN Scanned(source, result, "Comment", Comment(source, c))
    ELSE IF source[c] = "\""
    THEN Scanned(source, result, "String", StringToken(source, c + 1, <<>>))
    ELSE IF is_digit(source[c]) \/ source[c] = "-"
    THEN Scanned(source, result, "Int", IntLiteral(source, c))
    ELSE IF is_alphanumeric(source[c]) /\ ~is_whitespace(source[c])
    THEN Scanned(source, result, "Identifier", IdentifierToken(source, c, <<>>))
    ELSE UnexpectedCharacter(from_index(source, c - 1).val, source[c])

(***************************************************************************)
(* parser.rs.  Positions count from 1, so that t here is self.t + 1.  A    *)
(* parse gives Parsed(t, expression), the position after what was parsed   *)
(* and its AST, or a ParserError with the position of the token found, or  *)
(* the panic of a read of self.tokens outside its bounds.                  *)
(***************************************************************************)
Parsed(t, expression) == [tag |-> "Ok", t |-> t, expression |-> expression]

UnexpectedToken(t) == [tag |-> "ParserError", error |-> "UnexpectedToken", found |-> t]

ExpectedToken(t) == [tag |-> "ParserError", error |-> "ExpectedToken", found |-> t]

\* the one element of a set of one element: binds a result that is used
\* more than once
Only(S) == CHOOSE x \in S : TRUE

\* self.tokens[self.t].value, "" for a read outside the bounds
current_val(tokens, t) == IF t \in DOMAIN tokens THEN tokens[t].token ELSE ""

\* if value != self.current_val().into() { Err(ExpectedToken) } else { Ok(()) }
expect_token_discriminant(tokens, t, value) ==
    IF current_val(tokens, t) = "" THEN IndexOutOfBounds
    ELSE IF current_val(tokens, t) # value THEN ExpectedToken(t)
    ELSE Ok(ValueNull)

ExprWhile(test, body) == [type |-> "While", test |-> test, body |-> body]

\* The ladder of binary levels.  Level 1 is parse_exponentiative, 2
\* parse_multiplicative, 3 parse_additive, 4 parse_comparative and 5
\* parse_logical.  The operator a level takes for a token, "" when it takes
\* none.
LevelOperatorFlat(level, token) ==
    IF level # 3 THEN ""
    ELSE CASE token = "ExponentSign" -> "Exponentiation"
           [] token = "MultiplicationSign" -> "Multiply"
           [] token = "DivisionSign" -> "Divide"
           [] token = "ModuloSign" -> "Modulus"
           [] token = "PlusSign" -> "Plus"
           [] token = "MinusSign" -> "Minus"
           [] OTHER -> ""

LevelOperator(level, token) ==
    CASE level = 1 /\ token = "ExponentSign" -> "Exponentiation"
      [] level = 2 /\ token = "MultiplicationSign" -> "Multiply"
      [] level = 2 /\ token = "DivisionSign" -> "Divide"
      [] level = 2 /\ token = "ModuloSign" -> "Modulus"
      [] level = 3 /\ token = "PlusSign" -> "Plus"
      [] level = 3 /\ token = "MinusSign" -> "Minus"
      [] level = 4 /\ token \in { "IsEqual", "IsNotEqual", "IsGreaterThan",
                                  "IsGreaterThanOrEqual", "IsLessThan",
                                  "IsLessThanOrEqual" } -> token
      [] level = 5 /\ token \in {"And", "Or"} -> token
      [] OTHER -> ""

RECURSIVE parse_primary(_, _)
RECURSIVE parse_block(_, _)
RECURSIVE parse_block_loop(_, _, _)
RECURSIVE parse_level(_, _, _)
RECURSIVE parse_level_loop(_, _, _, _)
RECURSIVE parse_call_loop(_, _, _, _)
RECURSIVE parse_elifs(_, _, _)

\* parse_expression is parse_logical
parse_expression(tokens, t) == parse_level(tokens, t, 5)

\* the operand of a level: the level below, parse_primary below level 1
parse_operand(tokens, t, level) ==
    IF level = 1 THEN parse_primary(tokens, t) ELSE parse_level(tokens, t, level - 1)

\* let mut left = <operand>?; loop { .. }
parse_level(tokens, t, level) ==
    Only({ IF left.tag # "Ok" THEN left
           ELSE parse_level_loop(tokens, left.t, level, left.expression) :
                left \in {parse_operand(tokens, t, level)} })

\* loop { operator or break; advance; right = <operand>?; left = Binary }
parse_level_loop(tokens, t, level, left) ==
    IF current_val(tokens, t) = "" THEN IndexOutOfBounds
    ELSE IF LevelOperator(level, current_val(tokens, t)) = "" THEN Parsed(t, left)
    ELSE Only({ IF right.tag # "Ok" THEN right
                ELSE parse_level_loop(tokens, right.t, level,
                        ExprBinary(left, LevelOperator(level, current_val(tokens, t)),
                                   right.expression)) :
                    right \in {parse_operand(tokens, t + 1, level)} })

\* the mutation of parse_block that takes the end of the input for the
\* closing brace and advances over it
parse_block_loopClosingAtEnd(tokens, t, expressions) ==
    IF current_val(tokens, t) = "" THEN IndexOutOfBounds
    ELSE IF current_val(tokens, t) \in {"CloseBrace", "EndOfFile"}
    THEN Parsed(t + 1, expressions)
    ELSE Only({ IF e.tag # "Ok" THEN e
                ELSE parse_block_loop(tokens, e.t, Append(expressions, e.expression)) :
                    e \in {parse_expression(tokens, t)} })

\* loop { match current { CloseBrace => break, _ => push(parse_expression()?) } }
\* and the advance over the closing brace
parse_block_loop(tokens, t, expressions) ==
    IF current_val(tokens, t) = "" THEN IndexOutOfBounds
    ELSE IF current_val(tokens, t) = "CloseBrace" THEN Parsed(t + 1, expressions)
    ELSE Only({ IF e.tag # "Ok" THEN e
                ELSE parse_block_loop(tokens, e.t, Append(expressions, e.expression)) :
                    e \in {parse_expression(tokens, t)} })

\* gives the Block, a sequence of expressions
parse_block(tokens, t) ==
    IF expect_token_discriminant(tokens, t, "OpenBrace").tag # "Ok"
    THEN expect_token_discriminant(tokens, t, "OpenBrace")
    ELSE parse_block_loop(tokens, t + 1, <<>>)

\* parse_identifier, parse_int, parse_string, parse_null, parse_bool,
\* parse_continue and parse_break: the token is checked again, then advance
parse_identifier(tokens, t) ==
    IF current_val(tokens, t) = "" THEN IndexOutOfBounds
    ELSE IF current_val(tokens, t) # "Identifier" THEN ExpectedToken(t)
    ELSE Parsed(t + 1, ExprIdentifier(tokens[t].text))

parse_int(tokens, t) ==
    IF current_val(tokens, t) = "" THEN IndexOutOfBounds
    ELSE IF current_val(tokens, t) # "Int" THEN ExpectedToken(t)
    ELSE Parsed(t + 1, [type |-> "Int", int |-> tokens[t].value])

parse_string(tokens, t) ==
    IF current_val(tokens, t) = "" THEN IndexOutOfBounds
    ELSE IF current_val(tokens, t) # "String" THEN ExpectedToken(t)
    ELSE Parsed(t + 1, ExprString(tokens[t].text))

parse_null(tokens, t) ==
    IF expect_token_discriminant(tokens, t, "KeywordNull").tag # "Ok"
    THEN expect_token_discriminant(tokens, t, "KeywordNull")
    ELSE Parsed(t + 1, ExprNull)

parse_bool(tokens, t) ==
    IF current_val(tokens, t) = "" THEN IndexOutOfBounds
    ELSE IF current_val(tokens, t) = "KeywordTrue" THEN Parsed(t + 1, ExprBool(TRUE))
    ELSE IF current_val(tokens, t) = "KeywordFalse" THEN Parsed(t + 1, ExprBool(FALSE))
    ELSE UnexpectedToken(t)

parse_continue(tokens, t) ==
    IF expect_token_discriminant(tokens, t, "KeywordContinue").tag # "Ok"
    THEN expect_token_discriminant(tokens, t, "KeywordContinue")
    ELSE Parsed(t + 1, ExprContinue)

parse_break(tokens, t) ==
    IF expect_token_discriminant(tokens, t, "KeywordBreak").tag # "Ok"
    THEN expect_token_discriminant(tokens, t, "KeywordBreak")
    ELSE Parsed(t + 1, ExprBreak)

\* the expression that ends a declaration or an assignment
Bound(type, identifier, e) ==
    IF e.tag # "Ok" THEN e
    ELSE IF type = "VariableDeclaration"
    THEN Parsed(e.t, ExprVariableDeclaration(identifier, e.expression))
    ELSE Parsed(e.t, ExprAssign(identifier, "Set", e.expression))

\* var <identifier> = <expression>
parse_variable_declaration(tokens, t) ==
    IF expect_token_discriminant(tokens, t, "KeywordVar").tag # "Ok"
    THEN expect_token_discriminant(tokens, t, "KeywordVar")
    ELSE IF expect_token_discriminant(tokens, t + 1, "Identifier").tag # "Ok"
    THEN expect_token_discriminant(tokens, t + 1, "Identifier")
    ELSE IF expect_token_discriminant(tokens, t + 2, "EqualSign").tag # "Ok"
    THEN expect_token_discriminant(tokens, t + 2, "EqualSign")
    ELSE Bound("VariableDeclaration", tokens[t + 1].text, parse_expression(tokens, t + 3))

\* <identifier> = <expression>
parse_assign(tokens, t) ==
    IF expect_token_discriminant(tokens, t, "Identifier").tag # "Ok"
    THEN expect_token_discriminant(tokens, t, "Identifier")
    ELSE IF expect_token_discriminant(tokens, t + 1, "EqualSign").tag # "Ok"
    THEN expect_token_discriminant(tokens, t + 1, "EqualSign")
    ELSE Bound("Assign", tokens[t].text, parse_expression(tokens, t + 2))

\* while *self.current_val() != CloseParenthesis { push(parse_expression()?) }
\* and the advance over the closing parenthesis
parse_call_loop(tokens, t, identifier, arguments) ==
    IF current_val(tokens, t) = "" THEN IndexOutOfBounds
    ELSE IF current_val(tokens, t) = "CloseParenthesis"
    THEN Parsed(t + 1, ExprCall(identifier, arguments))
    ELSE Only({ IF e.tag # "Ok" THEN e
                ELSE parse_call_loop(tokens, e.t, identifier,
                                     Append(arguments, e.expression)) :
                    e \in {parse_expression(tokens, t)} })

\* <identifier> ( <expression>* )
parse_call(tokens, t) ==
    IF expect_token_discriminant(tokens, t, "Identifier").tag # "Ok"
    THEN expect_token_discriminant(tokens, t, "Identifier")
    ELSE IF expect_token_discriminant(tokens, t + 1, "OpenParenthesis").tag # "Ok"
    THEN expect_token_discriminant(tokens, t + 1, "OpenParenthesis")
    ELSE parse_call_loop(tokens, t + 2, tokens[t].text, <<>>)

\* the body that ends a function
FunctionBody(parameters, body) ==
    IF body.tag # "Ok" THEN body
    ELSE Parsed(body.t, ExprFunction(parameters, body.expression))

\* loop { match current { CloseParenthesis => { advance; break },
\*                        Identifier(v) => push(v), _ => return Err }; advance }
RECURSIVE parse_parameters(_, _, _)
parse_parameters(tokens, t, parameters) ==
    IF current_val(tokens, t) = "" THEN IndexOutOfBounds
    ELSE IF current_val(tokens, t) = "CloseParenthesis"
    THEN FunctionBody(parameters, parse_block(tokens, t + 1))
    ELSE IF current_val(tokens, t) = "Identifier"
    THEN parse_parameters(tokens, t + 1, Append(parameters, tokens[t].text))
    ELSE UnexpectedToken(t)

\* fun ( <identifier>* ) <block>
parse_function(tokens, t) ==
    IF expect_token_discriminant(tokens, t, "KeywordFun").tag # "Ok"
    THEN expect_token_discriminant(tokens, t, "KeywordFun")
    ELSE IF expect_token_discriminant(tokens, t + 1, "OpenParenthesis").tag # "Ok"
    THEN expect_token_discriminant(tokens, t + 1, "OpenParenthesis")
    ELSE parse_parameters(tokens, t + 2, <<>>)

\* a test and its block: Parsed(t, IfClause(test, body))
parse_clause(tokens, t) ==
    Only({ IF test.tag # "Ok" THEN test
           ELSE Only({ IF body.tag # "Ok" THEN body
                       ELSE Parsed(body.t, IfClause(test.expression, body.expression)) :
                            body \in {parse_block(tokens, test.t)} }) :
                test \in {parse_expression(tokens, t)} })

\* the else block that may end an if
ElseBlock(clauses, body) ==
    IF body.tag # "Ok" THEN body
    ELSE Parsed(body.t, ExprIf(clauses, Present(body.expression)))

\* while current == KeywordElif { advance; clause }, then the else block
parse_elifs(tokens, t, clauses) ==
    IF current_val(tokens, t) = "" THEN IndexOutOfBounds
    ELSE IF current_val(tokens, t) = "KeywordElif"
    THEN Only({ IF clause.tag # "Ok" THEN clause
                ELSE parse_elifs(tokens, clause.t, Append(clauses, clause.expression)) :
                    clause \in {parse_clause(tokens, t + 1)} })
    ELSE IF current_val(tokens, t) = "KeywordElse"
    THEN ElseBlock(clauses, parse_block(tokens, t + 1))
    ELSE Parsed(t, ExprIf(clauses, Absent))

\* if <test> <block> (elif <test> <block>)* (else <block>)?
parse_if(tokens, t) ==
    IF expect_token_discriminant(tokens, t, "KeywordIf").tag # "Ok"
    THEN expect_token_discriminant(tokens, t, "KeywordIf")
    ELSE Only({ IF clause.tag # "Ok" THEN clause
                ELSE parse_elifs(tokens, clause.t, <<clause.expression>>) :
                    clause \in {parse_clause(tokens, t + 1)} })

\* while <test> <block>
parse_while(tokens, t) ==
    IF expect_token_discriminant(tokens, t, "KeywordWhile").tag # "Ok"
    THEN expect_token_discriminant(tokens, t, "KeywordWhile")
    ELSE Only({ IF clause.tag # "Ok" THEN clause
                ELSE Parsed(clause.t,
                            ExprWhile(clause.expression.test, clause.expression.body)) :
                    clause \in {parse_clause(tokens, t + 1)} })

\* ( <expression> )
Parenthesized(tokens, e) ==
    IF e.tag # "Ok" THEN e
    ELSE IF expect_token_discriminant(tokens, e.t, "CloseParenthesis").tag # "Ok"
    THEN expect_token_discriminant(tokens, e.t, "CloseParenthesis")
    ELSE Parsed(e.t + 1, e.expression)

\* ExpressionValue::Block(self.parse_block()?)
BlockExpression(block) ==
    IF block.tag # "Ok" THEN block ELSE Parsed(block.t, ExprBlock(block.expression))

\* the Identifier arm: self.tokens[self.t + 1] chooses call, assign or identifier
IdentifierArm(tokens, t) ==
    IF current_val(tokens, t + 1) = "" THEN IndexOutOfBounds
    ELSE IF current_val(tokens, t + 1) = "OpenParenthesis" THEN parse_call(tokens, t)
    ELSE IF current_val(tokens, t + 1) = "EqualSign" THEN parse_assign(tokens, t)
    ELSE parse_identifier(tokens, t)

parse_primary(tokens, t) ==
    LET token == current_val(tokens, t)
    IN  CASE token = "" -> IndexOutOfBounds
          [] token = "Int" -> parse_int(tokens, t)
          [] token = "String" -> parse_string(tokens, t)
          [] token = "Identifier" -> IdentifierArm(tokens, t)
          [] token = "OpenParenthesis" ->
                Parenthesized(tokens, parse_expression(tokens, t + 1))
          [] token = "KeywordNull" -> parse_null(tokens, t)
          [] token \in {"KeywordTrue", "KeywordFalse"} -> parse_bool(tokens, t)
          [] token = "OpenBrace" -> BlockExpression(parse_block(tokens, t))
          [] token = "KeywordVar" -> parse_variable_declaration(tokens, t)
          [] token = "KeywordFun" -> parse_function(tokens, t)
          [] token = "KeywordIf" -> parse_if(tokens, t)
          [] token = "KeywordWhile" -> parse_while(tokens, t)
          [] token = "KeywordContinue" -> parse_continue(tokens, t)
          [] token = "KeywordBreak" -> parse_break(tokens, t)
          [] OTHER -> UnexpectedToken(t)

\* while self.tokens[self.t].value != EndOfFile { program.ast.push(..?) }
RECURSIVE parse(_, _, _)
parse(tokens, t, ast) ==
    IF current_val(tokens, t) = "" THEN IndexOutOfBounds
    ELSE IF current_val(tokens, t) = "EndOfFile" THEN Ok(ast)
    ELSE Only({ IF e.tag # "Ok" THEN e
                ELSE parse(tokens, e.t, Append(ast, e.expression)) :
                    e \in {parse_expression(tokens, t)} })

(***************************************************************************)
(* Interpreter::eval on source text: tokenize, parse, evaluate.  The       *)
(* sources are arithmetic over integer literals.                           *)
(***************************************************************************)
Literals == {<<"2">>, <<"3">>}

Signs == {<<"+">>, <<"-">>, <<"*">>, <<"/">>, <<"%">>, <<"*", "*">>}

Groupings == {<<"(", ")">>, <<"{", "}">>}

\* a o b o c, ungrouped
FlatSources ==
    { <<"7">> \o o1 \o b \o o2 \o c : b \in Literals, c \in Literals,
                                     o1 \in Signs, o2 \in Signs }

\* (a o b) o c and a o (b o c), with either kind of grouping
GroupedSources ==
    { <<g[1], "7">> \o o1 \o b \o <<g[2]>> \o o2 \o c :
        b \in Literals, c \in Literals, o1 \in Signs, o2 \in Signs, g \in Groupings }
    \cup
    { <<"7">> \o o1 \o <<g[1]>> \o b \o o2 \o c \o <<g[2]>> :
        b \in Literals, c \in Literals, o1 \in Signs, o2 \in Signs, g \in Groupings }

\* a o b o c o d, ungrouped
LongSources ==
    { <<"7">> \o o1 \o <<"3">> \o o2 \o <<"2">> \o o3 \o <<"2">> :
        o1 \in Signs, o2 \in Signs, o3 \in Signs }

\* several digits, white space, nested and mixed groupings
WrittenSources ==
    { <<"6", "/", "2", "*", "(", "1", "+", "2", ")">>,
      <<"6", "/", "2", "*", "{", "1", "+", "2", "}">>,
      <<"1", "0", " ", "-", " ", "2", " ", "*", "*", " ", "3", " ", "+", " ", "1">>,
      <<"(", "(", "2", "+", "3", ")", "*", "*", "2", "-", "4", ")", "/", "3">>,
      <<"{", "(", "2", "+", "3", ")", "*", "*", "2", "-", "4", "}", "/", "3">>,
      <<"(", "(", "2", "+", "3", ")", "*", "(", "4", "-", "(", "1", "+", "1", ")", ")", ")">>,
      <<"{", "{", "2", "+", "3", "}", "*", "{", "4", "-", "{", "1", "+", "1", "}", "}", "}">>,
      <<"1", "2", "0", "%", "{", "(", "9", ")", "}", "*", "1", "1">>,
      <<"2", "*", "*", "(", "0", "-", "2", ")">>,
      <<"8", "/", "(", "4", "-", "4", ")">> }

ArithmeticSources == FlatSources \cup GroupedSources \cup LongSources \cup WrittenSources

InitSource ==
    /\ scopes = default
    /\ outcome = NoOutcome
    /\ trace = <<>>
    /\ program = <<>>
    /\ evals = 0
    /\ overflow_checks \in BOOLEAN
    /\ \E source \in ArithmeticSources : call = [op |-> "source", source |-> source]

\* interpreter.eval(source): Parser::new(source)?.parse()?, then the
\* expressions of the program
EvalSource ==
    /\ call.op = "source"
    /\ \E tokens \in {tokenize(call.source, 1, <<>>)} :
        IF tokens.tag # "Ok"
        THEN /\ outcome' = tokens
             /\ UNCHANGED <<scopes, trace, program>>
        ELSE \E parsed \in {parse(tokens.val, 1, <<>>)} :
            IF parsed.tag # "Ok"
            THEN /\ outcome' = parsed
                 /\ UNCHANGED <<scopes, trace, program>>
            ELSE \E r \in {eval(scopes, parsed.val)} :
                /\ scopes' = r.st.scopes
                /\ outcome' = r.res
                /\ trace' = r.st.trace
                /\ program' = parsed.val
    /\ evals' = evals + 1
    /\ call' = [op |-> "evaluated", source |-> call.source]
    /\ UNCHANGED overflow_checks

NextSource == EvalSource

SpecSource == InitSource /\ [][NextSource]_vars

(***************************************************************************)
(* The precedence ladder, read off the text: an ungrouped expression       *)
(* splits at the last sign of its loosest level.                           *)
(***************************************************************************)
IsOpen(ch) == ch \in {"(", "{"}

IsClose(ch) == ch \in {")", "}"}

\* how many groups are open at position i of the text
Depth(text, i) ==
    Cardinality({j \in 1..(i - 1) : IsOpen(text[j])})
        - Cardinality({j \in 1..(i - 1) : IsClose(text[j])})

\* the sign that starts at position i of the text, "" when none does
SignAt(text, i) ==
    CASE text[i] = "+" -> "Plus"
      [] text[i] = "-" -> "Minus"
      [] text[i] = "/" -> "Divide"
      [] text[i] = "%" -> "Modulus"
      [] text[i] = "*" ->
            IF i > 1 /\ text[i - 1] = "*" THEN ""
            ELSE IF i < Len(text) /\ text[i + 1] = "*" THEN "Exponentiation"
            ELSE "Multiply"
      [] OTHER -> ""

Tightness(sign) ==
    CASE sign \in {"Plus", "Minus"} -> 1
      [] sign \in {"Multiply", "Divide", "Modulus"} -> 2
      [] sign = "Exponentiation" -> 3

RECURSIVE DecimalValue(_)
DecimalValue(text) ==
    IF text = <<>> THEN 0
    ELSE DecimalValue(SubSeq(text, 1, Len(text) - 1)) * 10 + to_digit(text[Len(text)])

RECURSIVE LadderValue(_)
LadderValue(text) ==
    LET signs == {i \in 1..Len(text) : SignAt(text, i) # "" /\ Depth(text, i) = 0}
    IN  IF signs = {}
        THEN IF IsOpen(text[1])
             THEN LadderValue(SubSeq(text, 2, Len(text) - 1))
             ELSE Ok(ValueInt(I64(DecimalValue(text))))
        ELSE LET loosest == CHOOSE i \in signs :
                     \A j \in signs :
                        \/ Tightness(SignAt(text, i)) < Tightness(SignAt(text, j))
                        \/ Tightness(SignAt(text, i)) = Tightness(SignAt(text, j)) /\ j <= i
                 sign == SignAt(text, loosest)
                 left == LadderValue(SubSeq(text, 1, loosest - 1))
                 right == LadderValue(SubSeq(text,
                             loosest + (IF sign = "Exponentiation" THEN 2 ELSE 1), Len(text)))
             IN  IF left.tag # "Ok" THEN left
                 ELSE IF right.tag # "Ok" THEN right
                 ELSE BinaryOperation(sign, left.val, right.val)

WithoutSpaces(text) == SelectSeq(text, LAMBDA ch : ch # " ")

\* C18: eval of an arithmetic expression over integer literals returns the
\* value of the precedence ladder (** tighter than * / %, these tighter
\* than + -, every level grouping to the left), a group in parentheses or
\* braces counting as one operand; so 7+3*2 is 13, (7+3)*2 is 20 and
\* 6/2*{1+2} is 9, and braces give what parentheses give.
C18_PrecedenceLadder ==
    call.op = "evaluated" =>
        /\ outcome = TopLevel(LadderValue(WithoutSpaces(call.source)))
        /\ call.source = <<"7", "+", "3", "*", "2">> => outcome = Ok(ValueInt(I64(13)))
        /\ call.source = <<"(", "7", "+", "3", ")", "*", "2">> => outcome = Ok(ValueInt(I64(20)))
        /\ call.source = <<"6", "/", "2", "*", "{", "1", "+", "2", "}">> =>
                outcome = Ok(ValueInt(I64(9)))
        /\ call.source = <<"7", "*", "*", "3", "*", "*", "2">> => outcome = Ok(ValueInt(I64(117649)))

\* a braced group under a tighter sign, evaluated to the parenthesised value
C18_Witness ==
    /\ call.op = "evaluated"
    /\ call.source = <<"{", "7", "+", "3", "}", "*", "*", "2">>
    /\ outcome = Ok(ValueInt(I64(100)))

\* C19: in a freshly constructed Interpreter each of printLn, toString,
\* readLn and len is bound in the global scope to a builtin function, and a
\* call through any of them does not fail with UndeclaredIdentifier.
C19_BuiltinsAreBound ==
    /\ evals = 0 =>
        \A id \in BuiltinIdentifiers :
            /\ id \in DOMAIN scopes[1]
            /\ scopes[1][id].kind = "Function"
            /\ scopes[1][id].function.fkind = "Builtin"
    /\ \A id \in BuiltinIdentifiers :
        ( evals = 1 /\ program = BuiltinCall(id) ) =>
            outcome # UnhandledException("UndeclaredIdentifier")

(***************************************************************************)
(* A session: several eval calls on one Interpreter.  call keeps the       *)
(* programs evaluated so far and how each eval ended.                      *)
(***************************************************************************)
MaxSessionEvals == 2

SessionDeclare == << ExprVariableDeclaration("a", ExprInt(1)) >>

SessionSteps ==
    << ExprAssign("a", "Set", ExprBinary(ExprIdentifier("a"), "Multiply", ExprInt(10))),
       ExprAssign("a", "Plus", ExprInt(2)),
       ExprIdentifier("a") >>

SessionTail ==
    << ExprAssign("a", "Plus", ExprInt(3)),
       ExprBinary(ExprIdentifier("a"), "Multiply", ExprInt(2)) >>

SessionLiteral == << ExprUpdate("a", "Increment"), ExprIdentifier("a"), ExprInt(7) >>

SessionFailing ==
    << ExprAssign("a", "Plus", ExprInt(1)), ExprIdentifier("missing"),
       ExprAssign("a", "Plus", ExprInt(1)) >>

\* { var t = 1  break }
SessionLeak ==
    << ExprBlock(<< ExprVariableDeclaration("t", ExprInt(1)), ExprBreak >>) >>

\* var f = fun(a) { a }  f(1)
SessionCall ==
    << ExprVariableDeclaration("f", ExprFunction(<<"a">>, <<ExprIdentifier("a")>>)),
       ExprCall("f", <<ExprInt(1)>>) >>

\* var f = fun(a) { a }  f()
SessionArity ==
    << ExprVariableDeclaration("f", ExprFunction(<<"a">>, <<ExprIdentifier("a")>>)),
       ExprCall("f", <<>>) >>

\* loop { break }
SessionLoop == << ExprLoop(Absent, Absent, Absent, <<ExprBreak>>) >>

SessionPrograms ==
    { SessionLeak, SessionCall, SessionArity, SessionLoop,
      <<>>, SessionDeclare, SessionSteps, SessionTail, SessionLiteral, SessionFailing,
      SessionDeclare \o SessionSteps, SessionDeclare \o SessionTail \o SessionSteps,
      << ExprIdentifier("a") >>,
      << ExprVariableDeclaration("b", ExprIdentifier("a")),
         ExprBinary(ExprIdentifier("b"), "Plus", ExprIdentifier("a")) >> }

InitSession ==
    /\ scopes = default
    /\ outcome = NoOutcome
    /\ trace = <<>>
    /\ program = <<>>
    /\ evals = 0
    /\ overflow_checks \in BOOLEAN
    /\ call = [op |-> "session", programs |-> <<>>, ended |-> <<>>]

\* interpreter.eval(source) on the Interpreter the earlier evals left
EvalSession(ast) ==
    /\ evals < MaxSessionEvals
    /\ ~Unwinds(outcome)
    /\ \E r \in {eval(scopes, ast)} :
        /\ scopes' = r.st.scopes
        /\ outcome' = r.res
        /\ trace' = r.st.trace
        /\ call' = [op |-> "session", programs |-> Append(call.programs, ast),
                    ended |-> Append(call.ended, r.res.tag)]
    /\ program' = ast
    /\ evals' = evals + 1
    /\ UNCHANGED overflow_checks

NextSession == \E ast \in SessionPrograms : EvalSession(ast)

SpecSession == InitSession /\ [][NextSession]_vars

\* the top-level expressions the last eval started, in the order it started them
TopLevelOrder == SelectSeq(trace, LAMBDA event : event[1] = "top")

\* the programs of the session, one after the other
RECURSIVE Joined(_)
Joined(programs) ==
    IF programs = <<>> THEN <<>> ELSE Head(programs) \o Joined(Tail(programs))

EarlierEvalsSucceeded == \A k \in 1..(Len(call.ended) - 1) : call.ended[k] = "Ok"

DivisionOfIntegers ==
    call.op = "division" /\ call.left.kind = "Int" /\ call.right.kind = "Int"

\* C29: a / b and a % b on integers complete with an integer or with an
\* Exception; for b # 0 the quotient is truncated toward zero and
\* (a / b) * b + a % b = a; for b = 0 both end in an Exception, not in an
\* abort without a result.
C29_DivisionCompletes ==
    DivisionOfIntegers =>
        LET a == call.left.int
            b == call.right.int
        IN  /\ call.quotient.tag \in {"Ok", "Exception"}
            /\ call.remainder.tag \in {"Ok", "Exception"}
            /\ b = <<0, 0, 0, 0>> =>
                call.quotient.tag = "Exception" /\ call.remainder.tag = "Exception"
            /\ b # <<0, 0, 0, 0>> =>
                /\ call.quotient.tag = "Ok" /\ call.quotient.val.kind = "Int"
                /\ call.remainder.tag = "Ok" /\ call.remainder.val.kind = "Int"
                /\ WrappingAdd(WrappingMul(call.quotient.val.int, b),
                               call.remainder.val.int) = a
                /\ UnsignedLess(UnsignedAbs(call.remainder.val.int), UnsignedAbs(b))
                /\ \/ call.remainder.val.int = <<0, 0, 0, 0>>
                   \/ IsNegative(call.remainder.val.int) = IsNegative(a)

\* C25: a bare block and an if expression (the body of its clause or its
\* else block) leave the scope stack as deep as they found it on every exit
\* path: normal completion, and a Continue, Break or exception raised
\* inside.
C25_BlockPopsItsScope ==
    \A i \in DOMAIN trace :
        ( IsEnter(i, "Block") \/ IsEnter(i, "If") ) =>
            \A j \in DOMAIN trace :
                ( IsExitOf(j, i) /\ Returned(trace[j][5]) )
                    => trace[j][4] = trace[i][4]

\* the exit at event j carries a signal out of a called function: between j
\* and the event m only enclosing constructs are left, each with that signal
UnwindsTo(j, m, signal) ==
    \A x \in (j + 1)..(m - 1) :
        \/ Kind(x) = "exit" /\ trace[x][5] = signal
        \/ Kind(x) = "call" /\ trace[x][3] = "pop"

SignalError(signal) ==
    IF signal = "Break" THEN [tag |-> "BreakOutsideLoop"]
    ELSE [tag |-> "ContinueOutsideLoop"]

\* C27: a call of a defined function whose body ends with Break or Continue
\* pops the scope of the call (the stack is as deep after the call as
\* before), returns the signal, and the signal ends the body of the innermost
\* loop around the call site, or makes eval fail when there is no such loop.
C27_SignalCrossesCall ==
    \A i \in DOMAIN trace :
        ( IsEnter(i, "Call") /\ CallsDefined(i) ) =>
            \A j \in DOMAIN trace :
                ( IsExitOf(j, i) /\ trace[j][5] \in {"Break", "Continue"} ) =>
                    /\ \E c \in 1..(j - 1) : IsCallEvent(c, trace[i][2], "pop")
                    /\ trace[j][4] = trace[i][4]
                    /\ \/ \E m \in (j + 1)..Len(trace) :
                            /\ IsBodyEnd(m, trace[j][5])
                            /\ UnwindsTo(j, m, trace[j][5])
                       \/ /\ UnwindsTo(j, Len(trace) + 1, trace[j][5])
                          /\ outcome = SignalError(trace[j][5])

\* C27 without the depth of the stack: the signal leaves the call after one
\* pop and reaches the innermost loop around the call site or the top level.
C27_SignalLeavesCall ==
    \A i \in DOMAIN trace :
        ( IsEnter(i, "Call") /\ CallsDefined(i) ) =>
            \A j \in DOMAIN trace :
                ( IsExitOf(j, i) /\ trace[j][5] \in {"Break", "Continue"} ) =>
                    /\ \E c \in 1..(j - 1) : IsCallEvent(c, trace[i][2], "pop")
                    /\ \/ \E m \in (j + 1)..Len(trace) :
                            /\ IsBodyEnd(m, trace[j][5])
                            /\ UnwindsTo(j, m, trace[j][5])
                       \/ /\ UnwindsTo(j, Len(trace) + 1, trace[j][5])
                          /\ outcome = SignalError(trace[j][5])

\* the depth of the scope stack at every point the trace records
Depths == { trace[i][4] : i \in { x \in DOMAIN trace : Kind(x) \in {"enter", "exit"} } }

\* C26: in every state of a session of eval calls, failed ones included, the
\* environment holds at least one scope: at every point of every eval the
\* stack is at least one deep (no more pops than pushes), its first scope
\* is the global scope of construction with the builtins in it, and declare
\* always finds a scope.
C26_GlobalScopeStays ==
    /\ Len(scopes) >= 1
    /\ \A d \in Depths : d >= 1
    /\ \A id \in DOMAIN default[1] : id \in DOMAIN scopes[1]
    \* what the first eval declared in the global scope is still in it
    /\ ( /\ evals >= 1
         /\ call.programs[1] # <<>>
         /\ call.programs[1][1].type = "VariableDeclaration"
         /\ IsLiteral(call.programs[1][1].expression) ) =>
            call.programs[1][1].identifier \in DOMAIN scopes[1]
    /\ outcome # Panic("unwrap on None")

\* an eval that failed and left a scope behind, followed by an eval that
\* called a function
C26_Witness ==
    /\ evals = 2
    /\ call.programs[1] \in {SessionLeak, SessionArity}
    /\ call.programs[2] = SessionCall
    /\ outcome = Ok(ValueInt(I64(1)))
    /\ Len(scopes) = 2
    /\ \E c \in DOMAIN trace : Kind(c) = "call" /\ trace[c][3] = "pop"

(***************************************************************************)
(* tokenize as a function of the source text: every text of at most        *)
(* MaxSourceLen characters over an alphabet with the comment, string and   *)
(* int characters.                                                         *)
(***************************************************************************)
MaxSourceLen == 4

LexAlphabet == {"#", "[", "]", "\"", "-", "5", "a", "\n"}

RECURSIVE Texts(_, _)
Texts(alphabet, n) ==
    IF n = 0 THEN {<<>>}
    ELSE Texts(alphabet, n - 1)
            \cup { Append(text, ch) : text \in Texts(alphabet, n - 1), ch \in alphabet }

InitLex ==
    /\ scopes = default
    /\ outcome = NoOutcome
    /\ trace = <<>>
    /\ program = <<>>
    /\ evals = 0
    /\ overflow_checks \in BOOLEAN
    /\ \E source \in Texts(LexAlphabet, MaxSourceLen) :
            call = [op |-> "text", source |-> source]

\* Lexer::new(source).tokenize()
Tokenize ==
    /\ call.op = "text"
    /\ call' = [op |-> "tokenized", source |-> call.source,
                result |-> tokenize(call.source, 1, <<>>)]
    /\ UNCHANGED <<scopes, outcome, trace, program, evals, overflow_checks>>

NextLex == Tokenize

SpecLex == InitLex /\ [][NextLex]_vars

\* the positions of the tokens of one kind
TokensOf(tokens, token) == {k \in DOMAIN tokens : tokens[k].token = token}

\* C24: for every source text, the empty text and texts that end inside a
\* comment or a string included, tokenize fails with a LexerError or returns
\* tokens with exactly one EndOfFile, as the last token; it never reads the
\* source outside its bounds (it never panics).
C24_EndsWithOneEndOfFile ==
    call.op = "tokenized" =>
        /\ call.result.tag \in {"Ok", "LexerError"}
        /\ call.result.tag = "Ok" =>
            /\ call.result.val # <<>>
            /\ TokensOf(call.result.val, "EndOfFile") = {Len(call.result.val)}

\* C24 for the texts that are not empty and do not end with the `#` that
\* opens a comment
C24_ExceptEmptyAndFinalHash ==
    ( /\ call.op = "tokenized"
      /\ call.result.tag \notin {"Ok", "LexerError"} ) =>
        \/ call.source = <<>>
        \/ /\ call.source[Len(call.source)] = "#"
           /\ call.result = IndexOutOfBounds

\* the source has no comment and no string
PlainText(source) == \A i \in DOMAIN source : source[i] \notin {"#", "\""}

\* the `-` signs of the source that are followed by a digit
SignsOfLiterals(source) ==
    {i \in DOMAIN source : source[i] = "-" /\ is_digit(next_or_space(source, i))}

\* C23: a `-` immediately followed by a digit starts an int literal: the
\* `-` and the digits give one Int token with the negated value, and no
\* MinusSign token; only the other `-` signs give MinusSign tokens.
C23_MinusDigitIsOneInt ==
    ( /\ call.op = "tokenized"
      /\ PlainText(call.source)
      /\ call.result.tag = "Ok" ) =>
        /\ Cardinality(TokensOf(call.result.val, "MinusSign"))
                = Cardinality({i \in DOMAIN call.source : call.source[i] = "-"})
                    - Cardinality(SignsOfLiterals(call.source))
        /\ call.source = <<"-", "5">> =>
                call.result.val = <<TokenInt(I64(-5)), Token("EndOfFile")>>
        /\ call.source = <<"-", "5", "5">> =>
                call.result.val = <<TokenInt(I64(-55)), Token("EndOfFile")>>
        /\ call.source = <<"5", "-", "5">> =>
                call.result.val = <<TokenInt(I64(5)), TokenInt(I64(-5)), Token("EndOfFile")>>

\* what tokenize does with a `-`: every `-` outside comments and strings is
\* a MinusSign token, and every Int token is the value of a run of digits
C23_MinusIsAlwaysASign ==
    ( /\ call.op = "tokenized"
      /\ PlainText(call.source)
      /\ call.result.tag = "Ok" ) =>
        /\ Cardinality(TokensOf(call.result.val, "MinusSign"))
                = Cardinality({i \in DOMAIN call.source : call.source[i] = "-"})
        /\ \A k \in TokensOf(call.result.val, "Int") :
                ~IsNegative(call.result.val[k].value)
        /\ call.source = <<"-", "5">> =>
                call.result.val = <<Token("MinusSign"), TokenInt(I64(5)), Token("EndOfFile")>>

(***************************************************************************)
(* Parser::new(source)?.parse() as a function of the source text: every    *)
(* text of at most MaxWords words, and some longer programs.               *)
(***************************************************************************)
MaxWords == 3

Words ==
    { <<"(">>, <<")">>, <<"{">>, <<"}">>, <<"=">>, <<"+">>, <<"x">>, <<"1">>,
      <<"f", "u", "n">>, <<"i", "f">>, <<"e", "l", "s", "e">>, <<"v", "a", "r">> }

\* the texts of at most n words, a space after each word
RECURSIVE WordTexts(_)
WordTexts(n) ==
    IF n = 0 THEN {<<>>}
    ELSE WordTexts(n - 1)
            \cup { text \o word \o <<" ">> : text \in WordTexts(n - 1), word \in Words }

\* the words of a text, written as one string per word or character
RECURSIVE Spaced(_)
Spaced(words) ==
    IF words = <<>> THEN <<>> ELSE Head(words) \o <<" ">> \o Spaced(Tail(words))

WrittenPrograms ==
    { Spaced(<< <<"f", "u", "n">>, <<"(">>, <<"x">>, <<"x">>, <<")">>,
                <<"{">>, <<"x">>, <<"}">> >>),
      Spaced(<< <<"f", "u", "n">>, <<"(">>, <<"x">>, <<")">>, <<"{">>, <<"x">> >>),
      Spaced(<< <<"v", "a", "r">>, <<"x">>, <<"=">>, <<"1">>, <<"+">>, <<"1">> >>),
      Spaced(<< <<"x">>, <<"=">>, <<"x">>, <<"(">>, <<"1">>, <<"x">>, <<")">> >>),
      Spaced(<< <<"x">>, <<"(">>, <<"1">>, <<"(">>, <<"x">> >>),
      Spaced(<< <<"i", "f">>, <<"x">>, <<"{">>, <<"1">>, <<"}">>,
                <<"e", "l", "i", "f">>, <<"x">>, <<"{">>, <<"}">>,
                <<"e", "l", "s", "e">>, <<"{">>, <<"x">>, <<"}">> >>),
      Spaced(<< <<"i", "f">>, <<"x">>, <<"{">>, <<"1">>, <<"}">>,
                <<"e", "l", "s", "e">>, <<"{">>, <<"x">> >>),
      Spaced(<< <<"w", "h", "i", "l", "e">>, <<"t", "r", "u", "e">>, <<"{">>,
                <<"b", "r", "e", "a", "k">>, <<"c", "o", "n", "t", "i", "n", "u", "e">>,
                <<"}">> >>),
      Spaced(<< <<"w", "h", "i", "l", "e">>, <<"f", "a", "l", "s", "e">>, <<"{">>,
                <<"n", "u", "l", "l">> >>),
      Spaced(<< <<"\"", "s", "\"">>, <<"=", "=">>, <<"x">>, <<"&", "&">>,
                <<"1">>, <<"<", "=">>, <<"1">> >>) }

ParseTexts == WordTexts(MaxWords) \cup WrittenPrograms

InitParse ==
    /\ scopes = default
    /\ outcome = NoOutcome
    /\ trace = <<>>
    /\ program = <<>>
    /\ evals = 0
    /\ overflow_checks \in BOOLEAN
    /\ \E source \in ParseTexts : call = [op |-> "text", source |-> source]

\* parse_expression started at every token: the expressions a parse of these
\* tokens can start
ExpressionsAt(tokens) ==
    IF tokens.tag # "Ok" THEN <<>>
    ELSE [t \in DOMAIN tokens.val |-> parse_expression(tokens.val, t)]

\* Parser::new(source)?.parse()
Parse ==
    /\ call.op = "text"
    /\ \E tokens \in {tokenize(call.source, 1, <<>>)} :
        call' = [op |-> "parsed", source |-> call.source, tokens |-> tokens,
                 result |-> IF tokens.tag # "Ok" THEN tokens
                            ELSE parse(tokens.val, 1, <<>>),
                 expressions |-> ExpressionsAt(tokens)]
    /\ UNCHANGED <<scopes, outcome, trace, program, evals, overflow_checks>>

NextParse == Parse

SpecParse == InitParse /\ [][NextParse]_vars

\* C28: for the tokens of every source text, parse ends with a Program or a
\* ParserError and no read of the tokens is out of bounds: the token found
\* by an error is a token of the input, every successful parse_expression
\* consumes at least one token and ends at the EndOfFile token at the latest,
\* also when the input ends inside a block, an argument list, a parameter
\* list or a parenthesis.
C28_ParseEndsInsideTheTokens ==
    ( call.op = "parsed" /\ call.tokens.tag = "Ok" ) =>
        LET last == Len(call.tokens.val)
        IN  /\ call.result.tag \in {"Ok", "ParserError"}
            /\ call.result.tag = "ParserError" => call.result.found \in 1..last
            /\ \A t \in 1..last :
                /\ call.expressions[t].tag \in {"Ok", "ParserError"}
                /\ call.expressions[t].tag = "ParserError" =>
                        call.expressions[t].found \in t..last
                /\ call.expressions[t].tag = "Ok" =>
                        /\ call.expressions[t].t > t
                        /\ call.expressions[t].t <= last
            /\ \A text \in { <<"{", " ", "1", " ">>,
                             <<"x", " ", "(", " ", "1", " ">>,
                             <<"f", "u", "n", " ", "(", " ", "x", " ">>,
                             <<"(", " ", "1", " ">> } :
                call.source = text => call.result.tag = "ParserError"
                                        /\ call.result.found = last

\* the input ends inside a block after one expression: that expression was
\* parsed, and the parse failed at the EndOfFile token
C28_Witness ==
    /\ call.op = "parsed"
    /\ call.source = <<"{", " ", "1", " ">>
    /\ Len(call.tokens.val) = 3
    /\ call.expressions[2] = Parsed(3, ExprInt(1))
    /\ call.result = UnexpectedToken(3)

(***************************************************************************)
(* toString(v) read back as source: the display text of a value is         *)
(* tokenized, parsed and evaluated by a fresh Interpreter.                 *)
(***************************************************************************)
MaxMagnitude == 30

RoundTripValues ==
    { ValueInt(I64(n)) : n \in (0 - MaxMagnitude)..MaxMagnitude }
        \cup { ValueInt(I64Max), ValueInt(I64Min), ValueInt(I64(12345)),
               ValueInt(I64(0 - 12345)), ValueBool(TRUE), ValueBool(FALSE) }

InitRoundTrip ==
    /\ scopes = default
    /\ outcome = NoOutcome
    /\ trace = <<>>
    /\ program = <<>>
    /\ evals = 0
    /\ overflow_checks \in BOOLEAN
    /\ \E v \in RoundTripValues : call = [op |-> "value", value |-> v]

\* eval(toString(v)): to_string, then Parser::new(text)?.parse()? and the
\* evaluation of the program
RoundTrip ==
    /\ call.op = "value"
    /\ \E text \in {to_string(<<call.value>>).res.val.str} :
        /\ call' = [op |-> "read_back", value |-> call.value, text |-> text]
        /\ \E tokens \in {tokenize(text, 1, <<>>)} :
            IF tokens.tag # "Ok"
            THEN /\ outcome' = tokens
                 /\ UNCHANGED <<scopes, trace, program>>
            ELSE \E parsed \in {parse(tokens.val, 1, <<>>)} :
                IF parsed.tag # "Ok"
                THEN /\ outcome' = parsed
                     /\ UNCHANGED <<scopes, trace, program>>
                ELSE \E r \in {eval(scopes, parsed.val)} :
                    /\ scopes' = r.st.scopes
                    /\ outcome' = r.res
                    /\ trace' = r.st.trace
                    /\ program' = parsed.val
    /\ evals' = evals + 1
    /\ UNCHANGED overflow_checks

NextRoundTrip == RoundTrip

SpecRoundTrip == InitRoundTrip /\ [][NextRoundTrip]_vars

\* C22: for every int v, negative ones included, and every bool v, the text
\* of toString(v), lexed and evaluated as source, gives a value equal to v.
C22_DisplayReadsBack ==
    call.op = "read_back" =>
        /\ outcome.tag = "Ok"
        /\ ValueEq(outcome.val, call.value)

\* C22 for the values whose text has no `-`: the bools and the ints from 0
C22_ReadsBackWithoutSign ==
    ( /\ call.op = "read_back"
      /\ ~(call.value.kind = "Int" /\ IsNegative(call.value.int)) ) =>
        /\ outcome.tag = "Ok"
        /\ ValueEq(outcome.val, call.value)

\* what happens to the text of a negative int: the `-` is a MinusSign token,
\* which starts no expression
C22_NegativeIsNotRead ==
    ( /\ call.op = "read_back"
      /\ call.value.kind = "Int" /\ IsNegative(call.value.int)
      /\ call.value.int # I64Min ) =>
        /\ call.text[1] = "-"
        /\ outcome = UnexpectedToken(1)

(***************************************************************************)
(* Two Interpreters, each made by Interpreter::new, evaluating programs in *)
(* any interleaving.  The first instance is in scopes and outcome, the     *)
(* second in call.other; call.first and call.second keep the programs      *)
(* each has evaluated.                                                     *)
(***************************************************************************)
MaxPairEvals == 2

\* var a = 1
PairDeclare == << ExprVariableDeclaration("a", ExprInt(1)) >>

\* a += 1  a
PairStep == << ExprAssign("a", "Plus", ExprInt(1)), ExprIdentifier("a") >>

\* a
PairRead == << ExprIdentifier("a") >>

\* fun() { 1 }
PairFunction == << ExprFunction(<<>>, <<ExprInt(1)>>) >>

\* { var a = 5  break }
PairLeak == << ExprBlock(<< ExprVariableDeclaration("a", ExprInt(5)), ExprBreak >>) >>

PairPrograms == {PairDeclare, PairStep, PairRead, PairFunction, PairLeak}

\* the mutation of EnvironmentOf in which an instance evaluates on the
\* environment of the other
EnvironmentOfOther(own, other) == other

\* self.environment: the Environment an Interpreter made for itself in new
EnvironmentOf(own, other) == own

InitPair ==
    /\ scopes = default
    /\ outcome = NoOutcome
    /\ trace = <<>>
    /\ program = <<>>
    /\ evals = 0
    /\ overflow_checks \in BOOLEAN
    /\ call = [op |-> "pair", other |-> [scopes |-> default, outcome |-> NoOutcome],
               first |-> <<>>, second |-> <<>>]

\* first.eval(source)
EvalFirst(ast) ==
    /\ Len(call.first) < MaxPairEvals
    /\ \E r \in {eval(EnvironmentOf(scopes, call.other.scopes), ast)} :
        /\ scopes' = r.st.scopes
        /\ outcome' = r.res
        /\ trace' = r.st.trace
    /\ program' = ast
    /\ evals' = evals + 1
    /\ call' = [call EXCEPT !.first = Append(@, ast)]
    /\ UNCHANGED overflow_checks

\* second.eval(source)
EvalSecond(ast) ==
    /\ Len(call.second) < MaxPairEvals
    /\ \E r \in {eval(EnvironmentOf(call.other.scopes, scopes), ast)} :
        call' = [call EXCEPT !.other = [scopes |-> r.st.scopes, outcome |-> r.res],
                             !.second = Append(@, ast)]
    /\ evals' = evals + 1
    /\ UNCHANGED <<scopes, outcome, trace, program, overflow_checks>>

NextPair ==
    \/ \E ast \in PairPrograms : EvalFirst(ast)
    \/ \E ast \in PairPrograms : EvalSecond(ast)

SpecPair == InitPair /\ [][NextPair]_vars

\* what one fresh Interpreter alone has after evaluating the programs in turn
RECURSIVE Alone(_, _, _)
Alone(s, res, programs) ==
    IF programs = <<>> THEN [scopes |-> s, outcome |-> res]
    ELSE Only({ Alone(r.st.scopes, r.res, Tail(programs)) :
                    r \in {eval(s, Head(programs))} })

\* two results of eval are equal: equal values under ==, or the same error
EqualResults(a, b) ==
    IF a.tag = "Ok" /\ b.tag = "Ok" THEN ValueEq(a.val, b.val) ELSE a = b

\* no program evaluated on one instance changes what the other returns and
\* holds: each instance is as if it had run alone
NoInfluence ==
    /\ [scopes |-> scopes, outcome |-> outcome] = Alone(default, NoOutcome, call.first)
    /\ call.other = Alone(default, NoOutcome, call.second)

C21_WitnessApart ==
    /\ call.op = "pair"
    /\ call.first = <<PairDeclare, PairStep>>
    /\ call.second = <<PairRead>>
    /\ outcome = Ok(ValueInt(I64(2)))
    /\ call.other.outcome = UnhandledException("UndeclaredIdentifier")

\* both returned the same function for the same program
C21_WitnessFunction ==
    /\ call.op = "pair"
    /\ call.first = <<PairFunction>>
    /\ call.second = <<PairFunction>>
    /\ outcome.tag = "Ok" /\ outcome.val.kind = "Function"
    /\ outcome = call.other.outcome

====
